---- MODULE Spec2Model ----
(***************************************************************************)
(* Model of genplot-mp.py: the ingestion / type-inference / range-clipping *)
(* pipeline (prepare_data), the category aligner (do_plot_group_bars) and  *)
(* the frequency expander (original_X).                                     *)
(*                                                                         *)
(* Values.  A Python value held by a dataset is modelled as a record       *)
(*   [t, n, s]:  t = "num"  a float, n counts HALVES (n = 3 is 1.5)        *)
(*               t = "nan"  numpy.nan / float("nan")                       *)
(*               t = "str"  a text, s is the text                          *)
(*               t = "ts"   a datetime, n is the instant in seconds        *)
(* so that a list may hold floats and texts side by side, as plot["y"]     *)
(* does after blanking.                                                     *)
(***************************************************************************)
EXTENDS Integers, Sequences, FiniteSets, TLC

VARIABLES
    plots,      \* the datasets of graph["graphs"][..]["plot"], all groups in turn
    cur,        \* the dataset the loop of prepare_data is at (1-based)
    pc,         \* position of the controlling process
    bars,       \* what do_plot_group_bars computed for the group
    buckets_xy, \* the (value, frequency) pairs stat_plot zips (line 1098)
    samples,    \* the list original_X returned
    files,      \* graph["input-files-group"]: the files not parsed yet, by group
    graphs,     \* graph["graphs"]: per group, the positions of its datasets in plots
    current_plot, \* the graph type of the group being parsed ("" for None)
    warned,     \* the files the "plot type ... is different" warning was printed for
    stat,       \* the locals of one stat_plot worker
    opts,       \* the command-line switches held by graph
    procs,      \* running_processes, with the state of each worker
    disk,       \* the paths of the files that exist
    drawn       \* the graphs produced so far, each with the file it was saved to

vars == <<plots, cur, pc, bars, buckets_xy, samples, files, graphs, current_plot, warned, stat,
          opts, procs, disk, drawn>>

\* what each stage leaves alone
parse_vars == <<files, graphs, current_plot, warned>>
stat_vars == <<stat>>
proc_vars == <<opts, procs>>
file_vars == <<disk, drawn>>

----------------------------------------------------------------------------
(* Bounds of the model.                                                    *)
MaxRows == 2        \* data rows per file
MaxGroupRows == 3   \* data rows per group, all its files together (category aligner)
MaxPlots == 2       \* files per group (category aligner)
MaxPairs == 2       \* (value, frequency) pairs (frequency expander)
MaxSamples == 3     \* values (or pairs) of the dataset handed to stat_plot
MaxFiles == 4       \* input files of a run, all groups together
MaxRawSamples == 4  \* raw samples whose mean and quartiles are computed

----------------------------------------------------------------------------
(* Python values.                                                          *)
Num(n) == [t |-> "num", n |-> n, s |-> ""]
Str(s) == [t |-> "str", n |-> 0, s |-> s]
Ts(n) == [t |-> "ts", n |-> n, s |-> ""]
NaN == [t |-> "nan", n |-> 0, s |-> ""]

T1 == "2023-02-14 09:51:00"
T2 == "2023-02-14 09:51:02"

\* every text of the model, in the order Python's str comparison gives
\* (code point by code point, a prefix before its extensions)
TextOrder == << "", "-1", "0", "1", "1.5", "2", T1, T2, "a", "b", "c" >>

StrRank(s) == CHOOSE i \in 1..Len(TextOrder) : TextOrder[i] = s

\* float(text): the number, or failure (ValueError)
FloatOk(s) == s \in {"-1", "0", "1", "1.5", "2"}
ToFloat(s) ==
    CASE s = "-1" -> Num(-2)
      [] s = "0" -> Num(0)
      [] s = "1" -> Num(2)
      [] s = "1.5" -> Num(3)
      [] s = "2" -> Num(4)

\* datetime.strptime(text, DATE_FORMAT): the instant, or failure (ValueError)
StrptimeOk(s) == s \in {T1, T2}
Strptime(s) == IF s = T1 THEN Ts(0) ELSE Ts(2)

\* bool(v), as in "if plot["min-x"]:"
Truthy(v) ==
    CASE v.t = "num" -> v.n # 0
      [] v.t = "str" -> v.s # ""
      [] OTHER -> TRUE

\* the classes of values Python compares with each other; comparing values
\* of two classes raises TypeError
Class(v) == IF v.t \in {"num", "nan"} THEN "float" ELSE v.t
CmpError(a, b) == Class(a) # Class(b)

\* a < b and a <= b for values of one class; every comparison with nan is False
PyLt(a, b) ==
    CASE a.t = "nan" \/ b.t = "nan" -> FALSE
      [] a.t = "str" -> StrRank(a.s) < StrRank(b.s)
      [] OTHER -> a.n < b.n
PyLe(a, b) ==
    CASE a.t = "nan" \/ b.t = "nan" -> FALSE
      [] a.t = "str" -> StrRank(a.s) <= StrRank(b.s)
      [] OTHER -> a.n <= b.n
PyGe(a, b) == PyLe(b, a)
PyGt(a, b) == PyLt(b, a)

----------------------------------------------------------------------------
(* Sequence helpers standing for Python list operations.                   *)

\* s[left:right] with 0-based, non-negative left and right
Slice(s, left, right) ==
    IF left >= right THEN <<>>
    ELSE SubSeq(s, left + 1, IF right > Len(s) THEN Len(s) ELSE right)

\* (mutant of PySorted: elements with equal keys come out in reverse order)
PySortedTiesReversed(s) ==
    LET n == Len(s)
        pos(i) == Cardinality({j \in 1..n : PyLt(s[j][1], s[i][1])})
                  + Cardinality({j \in (i + 1)..n : ~ PyLt(s[j][1], s[i][1])
                                                     /\ ~ PyLt(s[i][1], s[j][1])})
                  + 1
    IN [k \in 1..n |-> s[CHOOSE i \in 1..n : pos(i) = k]]

\* sorted(pairs, key = lambda p: p[0]): stable, ascending by the first member
RECURSIVE PySorted(_)
PySorted(s) ==
    IF s = <<>> THEN <<>>
    ELSE LET n == Len(s)
             rest == PySorted(SubSeq(s, 1, n - 1))
             last == s[n]
             k == Cardinality({i \in 1..Len(rest) : ~ PyLt(last[1], rest[i][1])})
         IN SubSeq(rest, 1, k) \o <<last>> \o SubSeq(rest, k + 1, Len(rest))

\* sorted(values)
PySortedValues(s) ==
    LET r == PySorted([i \in 1..Len(s) |-> <<s[i], s[i]>>])
    IN [i \in 1..Len(r) |-> r[i][1]]

\* min(values) and max(values) of a non-empty list: the first element, replaced
\* by each later one that compares smaller (greater)
RECURSIVE PyMin(_)
PyMin(s) ==
    IF Len(s) = 1 THEN s[1]
    ELSE LET m == PyMin(SubSeq(s, 1, Len(s) - 1))
         IN IF PyLt(s[Len(s)], m) THEN s[Len(s)] ELSE m
RECURSIVE PyMax(_)
PyMax(s) ==
    IF Len(s) = 1 THEN s[1]
    ELSE LET m == PyMax(SubSeq(s, 1, Len(s) - 1))
         IN IF PyGt(s[Len(s)], m) THEN s[Len(s)] ELSE m

----------------------------------------------------------------------------
(* prepare_data.  Every stage returns [ok, plot]; ok = FALSE stands for an *)
(* uncaught exception, which ends the whole program.                       *)

Fail(p) == [ok |-> FALSE, plot |-> p]
Done(p) == [ok |-> TRUE, plot |-> p]

\* 0-based index of the first (last) of the positions hits (1-based) where the
\* scan's test succeeds, or dflt when there is none: the for ... break ... else
\* loops of the bound scans
FirstIndex(hits, dflt) ==
    IF hits = {} THEN dflt
    ELSE (CHOOSE i \in hits : \A j \in hits : i <= j) - 1
LastIndex(hits, dflt) ==
    IF hits = {} THEN dflt
    ELSE (CHOOSE i \in hits : \A j \in hits : i >= j) - 1

\* check_limits, for one limit: the header field is a text, never None
CheckLimit(limit) == IF FloatOk(limit.s) THEN ToFloat(limit.s) ELSE limit
check_limits(limits) == <<CheckLimit(limits[1]), CheckLimit(limits[2])>>

\* (mutant of to_numbers: a field that parses is converted even when another
\* row's field does not)
to_numbers_partial(plot, field) ==
    LET rows == plot.all_data
        present == \A i \in 1..Len(rows) : Len(rows[i]) >= field
    IN IF present
       THEN [ok |-> TRUE,
             is_categorical |-> \E i \in 1..Len(rows) : ~ FloatOk(rows[i][field]),
             lplot |-> [i \in 1..Len(rows) |->
                          IF FloatOk(rows[i][field]) THEN ToFloat(rows[i][field])
                          ELSE Str(rows[i][field])]]
       ELSE [ok |-> FALSE, is_categorical |-> TRUE, lplot |-> <<>>]

\* to_numbers(plot, data_index), field being data_index + 1.  The filter
\* len(sp) >= 1 and "" != all(sp) is true of every row.  Any exception of the
\* float pass (ValueError, IndexError) leads to the raw-text pass, where a
\* missing field raises IndexError again, uncaught.
to_numbers(plot, field) ==
    LET rows == plot.all_data
        present == \A i \in 1..Len(rows) : Len(rows[i]) >= field
    IN IF present /\ \A i \in 1..Len(rows) : FloatOk(rows[i][field])
       THEN [ok |-> TRUE, is_categorical |-> FALSE,
             lplot |-> [i \in 1..Len(rows) |-> ToFloat(rows[i][field])]]
       ELSE IF present
       THEN [ok |-> TRUE, is_categorical |-> TRUE,
             lplot |-> [i \in 1..Len(rows) |-> Str(rows[i][field])]]
       ELSE [ok |-> FALSE, is_categorical |-> TRUE, lplot |-> <<>>]

\* the rows kept by "len(sp := data.split(",")) > 1"
TwoFieldRows(plot) == SelectSeq(plot.all_data, LAMBDA r : Len(r) > 1)

\* lines 1416-1432: plot["x"], plot["y"] and the two categorical flags
InferTypes(p) ==
    LET rows2 == TwoFieldRows(p)
        xres ==
            CASE p.graph_type = "timeseries" ->
                   IF \A i \in 1..Len(rows2) : StrptimeOk(rows2[i][1])
                   THEN [ok |-> TRUE, is_categorical |-> p.is_categorical_in_x,
                         lplot |-> [i \in 1..Len(rows2) |-> Strptime(rows2[i][1])]]
                   ELSE [ok |-> FALSE, is_categorical |-> FALSE, lplot |-> <<>>]
              [] p.graph_type = "pie" ->
                   [ok |-> TRUE, is_categorical |-> TRUE,
                    lplot |-> [i \in 1..Len(rows2) |-> Str(rows2[i][1])]]
              [] OTHER -> to_numbers(p, 1)
        yres == IF p.graph_type # "histogram" THEN to_numbers(p, 2)
                ELSE [ok |-> TRUE, is_categorical |-> p.is_categorical_in_y,
                      lplot |-> p.y]
    IN IF xres.ok /\ yres.ok
       THEN Done([p EXCEPT !.x = xres.lplot,
                           !.is_categorical_in_x = xres.is_categorical,
                           !.y = yres.lplot,
                           !.is_categorical_in_y = yres.is_categorical])
       ELSE Fail(p)

\* lines 1437-1450: the range bounds of the header
ParseBounds(p) ==
    IF p.graph_type = "timeseries"
    THEN IF \/ Truthy(p.min_x) /\ ~ StrptimeOk(p.min_x.s)
            \/ Truthy(p.max_x) /\ ~ StrptimeOk(p.max_x.s)
         THEN Fail(p)
         ELSE LET ly == check_limits(<<p.min_y, p.max_y>>)
              IN Done([p EXCEPT
                    !.min_x = IF Truthy(p.min_x) THEN Strptime(p.min_x.s) ELSE p.min_x,
                    !.max_x = IF Truthy(p.max_x) THEN Strptime(p.max_x.s) ELSE p.max_x,
                    !.min_y = ly[1], !.max_y = ly[2]])
    ELSE LET lx == check_limits(<<p.min_x, p.max_x>>)
             ly == check_limits(<<p.min_y, p.max_y>>)
         IN IF p.graph_type = "histogram"
            THEN Done([p EXCEPT !.min_x = lx[1], !.max_x = lx[2],
                                !.is_categorical_in_y = FALSE])
            ELSE Done([p EXCEPT !.min_x = lx[1], !.max_x = lx[2],
                                !.min_y = ly[1], !.max_y = ly[2]])

\* lines 1454-1479: x-ranging of a histogram
HistRight(tmp, max_x) == LastIndex({i \in 1..Len(tmp) : PyLe(tmp[i], max_x)}, Len(tmp))
ClipHistogram(p) ==
    LET tmp == PySortedValues(p.x)
        hasMin == Truthy(p.min_x)
        hasMax == Truthy(p.max_x)
        err == \/ tmp # <<>> /\ hasMin /\ CmpError(tmp[1], p.min_x)
               \/ tmp # <<>> /\ hasMax /\ CmpError(tmp[1], p.max_x)
               \/ tmp = <<>> /\ (~ hasMin \/ ~ hasMax)
        left == IF hasMin THEN FirstIndex({i \in 1..Len(tmp) : PyGe(tmp[i], p.min_x)}, 0) ELSE 0
        right == IF hasMax THEN HistRight(tmp, p.max_x) ELSE Len(tmp)
    IN IF err THEN Fail(p)
       ELSE Done([p EXCEPT !.min_x = IF hasMin THEN p.min_x ELSE tmp[1],
                           !.max_x = IF hasMax THEN p.max_x ELSE tmp[Len(tmp)],
                           !.x = Slice(tmp, left, right)])

\* (mutant of SortedPairs: the x values are sorted on their own, the y values
\* stay in file order)
SortedPairsKeysOnly(p) ==
    LET rows2 == TwoFieldRows(p)
        yval(r) == IF ~ p.is_categorical_in_y THEN ToFloat(r[2]) ELSE Str(r[2])
        xval(r) == IF p.graph_type = "timeseries" THEN Strptime(r[1]) ELSE ToFloat(r[1])
        xs == PySortedValues([i \in 1..Len(rows2) |-> xval(rows2[i])])
    IN [i \in 1..Len(rows2) |-> <<xs[i], yval(rows2[i])>>]

\* lines 1482-1491: the (x, y) pairs sorted on x, for a timeseries or a
\* numeric x axis
SortedPairs(p) ==
    LET rows2 == TwoFieldRows(p)
        yval(r) == IF ~ p.is_categorical_in_y THEN ToFloat(r[2]) ELSE Str(r[2])
        xval(r) == IF p.graph_type = "timeseries" THEN Strptime(r[1]) ELSE ToFloat(r[1])
    IN PySorted([i \in 1..Len(rows2) |-> <<xval(rows2[i]), yval(rows2[i])>>])

\* lines 1492-1515: the bound scans of the other graph types
XLeft(x, min_x) == FirstIndex({i \in 1..Len(x) : PyGe(x[i], min_x)}, 0)
XRight(x, max_x) == FirstIndex({i \in 1..Len(x) : PyGt(x[i], max_x)}, Len(x))

\* lines 1481-1537: x-ranging of the other graph types
ClipX(p) ==
    LET sorts == p.graph_type = "timeseries" \/ ~ p.is_categorical_in_x
        tmp == IF sorts THEN SortedPairs(p) ELSE <<>>
        x == IF sorts THEN [i \in 1..Len(tmp) |-> tmp[i][1]] ELSE p.x
        hasMin == Truthy(p.min_x)
        hasMax == Truthy(p.max_x)
        numeric == ~ p.is_categorical_in_x /\ p.graph_type # "timeseries"
        err == \/ x # <<>> /\ hasMin /\ CmpError(x[1], p.min_x)
               \/ x # <<>> /\ hasMax /\ CmpError(x[1], p.max_x)
               \/ x = <<>> /\ (~ hasMin \/ ~ hasMax)
               \* float(plot["min-x"]) on a literal that is not a number
               \/ numeric /\ hasMin /\ p.min_x.t = "str"
               \/ numeric /\ hasMax /\ p.max_x.t = "str"
        left == IF hasMin THEN XLeft(x, p.min_x) ELSE 0
        right == IF hasMax THEN XRight(x, p.max_x) ELSE Len(x)
        sel == Slice(tmp, left, right)
    IN IF err THEN Fail(p)
       ELSE Done([p EXCEPT
               !.min_x = IF hasMin THEN p.min_x ELSE x[1],
               !.max_x = IF hasMax THEN p.max_x ELSE x[Len(x)],
               !.x = IF sorts THEN [i \in 1..Len(sel) |-> sel[i][1]]
                     ELSE Slice(p.x, left, right),
               !.y = IF sorts THEN [i \in 1..Len(sel) |-> sel[i][2]]
                     ELSE Slice(p.y, left, right)])

\* lines 1547 and 1551: the y values outside a bound become numpy.nan
BlankBelow(y, min_y) == [i \in 1..Len(y) |-> IF PyGe(y[i], min_y) THEN y[i] ELSE NaN]
BlankAbove(y, max_y) == [i \in 1..Len(y) |-> IF PyLe(y[i], max_y) THEN y[i] ELSE NaN]

\* lines 1539-1553: y-ranging
ClipY(p) ==
    LET hasMin == Truthy(p.min_y)
        hasMax == Truthy(p.max_y)
        y1 == IF hasMin THEN BlankBelow(p.y, p.min_y) ELSE p.y
        y2 == IF hasMax THEN BlankAbove(y1, p.max_y) ELSE y1
        err == \* float(plot["min-y"]) on a literal that is not a number
               \/ ~ p.is_categorical_in_y /\ hasMin /\ p.min_y.t = "str"
               \/ ~ p.is_categorical_in_y /\ hasMax /\ p.max_y.t = "str"
               \/ hasMin /\ \E i \in 1..Len(p.y) : CmpError(p.y[i], p.min_y)
               \/ hasMax /\ \E i \in 1..Len(y1) : CmpError(y1[i], p.max_y)
               \/ p.y = <<>> /\ (~ hasMin \/ ~ hasMax)
    IN IF err THEN Fail(p)
       ELSE Done([p EXCEPT
               !.y = y2,
               !.min_y = IF hasMin THEN p.min_y
                         ELSE IF ~ p.is_categorical_in_y THEN PyMin(p.y) ELSE p.y[1],
               !.max_y = IF hasMax THEN p.max_y
                         ELSE IF ~ p.is_categorical_in_y THEN PyMax(y1) ELSE y1[Len(y1)]])

----------------------------------------------------------------------------
(* do_plot_group_bars, lines 869-903: the category aligner.                *)

\* position (1-based) of the first occurrence of v in s: list.index(v) + 1
IndexOf(s, v) == CHOOSE i \in 1..Len(s) : s[i] = v /\ \A j \in 1..(i - 1) : s[j] # v
Contains(s, v) == \E i \in 1..Len(s) : s[i] = v

\* lines 871-881: merged_x (and its twin xticks_labels), the keys of the
\* Categorical-in-x datasets in order of first appearance, then sorted
RECURSIVE AppendNew(_, _)
AppendNew(acc, xs) ==
    IF xs = <<>> THEN acc
    ELSE AppendNew(IF Contains(acc, Head(xs)) THEN acc ELSE Append(acc, Head(xs)), Tail(xs))
RECURSIVE CollectKeys(_, _)
CollectKeys(acc, gr) ==
    IF gr = <<>> THEN acc
    ELSE CollectKeys(IF Head(gr).is_categorical_in_x THEN AppendNew(acc, Head(gr).x) ELSE acc,
                     Tail(gr))
\* (mutant of MergedX: the keys stay in order of first appearance)
MergedXUnsorted(gr) == IF Len(gr) > 1 THEN CollectKeys(<<>>, gr) ELSE <<>>
MergedX(gr) == IF Len(gr) > 1 THEN PySortedValues(CollectKeys(<<>>, gr)) ELSE <<>>

\* (mutant of AlignY: the y of the last row with the key instead of the first)
AlignYLast(plot, merged_x, gap) ==
    [i \in 1..Len(merged_x) |->
        IF Contains(plot.x, merged_x[i])
        THEN plot.y[CHOOSE j \in 1..Len(plot.x) :
                       plot.x[j] = merged_x[i] /\ \A k \in (j + 1)..Len(plot.x) : plot.x[k] # merged_x[i]]
        ELSE gap]

\* lines 889 and 897: the y values of one dataset laid on merged_x
AlignY(plot, merged_x, gap) ==
    [i \in 1..Len(merged_x) |->
        IF Contains(plot.x, merged_x[i]) THEN plot.y[IndexOf(plot.x, merged_x[i])] ELSE gap]

\* lines 891-893: the first "" of y_data goes to the front
MoveFirstGap(y_data) ==
    LET pos == IndexOf(y_data, Str(""))
    IN <<Str("")>> \o SubSeq(y_data, 1, pos - 1) \o SubSeq(y_data, pos + 1, Len(y_data))

\* lines 883-903: the loop over the datasets; st carries x_data, null_value_found
\* and the arguments of the calls of do_plot_individual_bar made so far
RECURSIVE BarsLoop(_, _, _, _)
BarsLoop(gr, k, merged_x, st) ==
    IF k > Len(gr) THEN st
    ELSE LET plot == gr[k]
             aligned == plot.is_categorical_in_x /\ Len(gr) > 1
             raw == AlignY(plot, merged_x, IF plot.is_categorical_in_y THEN Str("") ELSE NaN)
             hack == aligned /\ plot.is_categorical_in_y
                     /\ ~ st.null_value_found /\ Contains(raw, Str(""))
             y_data == IF ~ aligned THEN plot.y
                       ELSE IF hack THEN MoveFirstGap(raw) ELSE raw
             x_data == IF aligned THEN st.x_data ELSE plot.x
         IN BarsLoop(gr, k + 1, merged_x,
                     [x_data |-> x_data,
                      null_value_found |-> st.null_value_found \/ hack,
                      calls |-> Append(st.calls, [x_data |-> x_data, y_data |-> y_data])])

\* line 869: min() over the datasets' min-y raises TypeError when a text meets a float
MinYError(gr) == \E i, j \in 1..Len(gr) : CmpError(gr[i].min_y, gr[j].min_y)

do_plot_group_bars(gr) ==
    LET merged_x == MergedX(gr)
        x_data == [i \in 1..Len(merged_x) |-> Num(2 * (i - 1))]
        st == BarsLoop(gr, 1, merged_x,
                       [x_data |-> x_data, null_value_found |-> FALSE, calls |-> <<>>])
    IN [merged_x |-> merged_x, xticks_labels |-> merged_x, calls |-> st.calls]

----------------------------------------------------------------------------
(* original_X, lines 1004-1012: the frequency expander.                     *)

NoArg == [given |-> FALSE, v |-> <<>>]
Arg(v) == [given |-> TRUE, v |-> v]

\* (mutant of PyInt: rounding to the nearest whole number, halves upward)
PyIntRounding(y) == IF y.n >= 0 THEN (y.n + 1) \div 2 ELSE -((-y.n) \div 2)

\* int(y) of a float: truncation toward zero (n counts halves)
PyInt(y) == IF y.n >= 0 THEN y.n \div 2 ELSE -((-y.n) \div 2)

\* list(repeat(x, n)): nothing when n <= 0
Repeat(x, n) == IF n <= 0 THEN <<>> ELSE [i \in 1..n |-> x]

\* (mutant of Expand: the pairs are expanded last to first)
RECURSIVE ExpandReversed(_)
ExpandReversed(zipped) ==
    IF zipped = <<>> THEN <<>>
    ELSE ExpandReversed(Tail(zipped)) \o Repeat(zipped[1][1], PyInt(zipped[1][2]))

RECURSIVE Expand(_)
Expand(zipped) ==
    IF zipped = <<>> THEN <<>>
    ELSE Repeat(zipped[1][1], PyInt(zipped[1][2])) \o Expand(Tail(zipped))

\* zip(values, counters)
Zip(values, counters) ==
    LET n == IF Len(values) < Len(counters) THEN Len(values) ELSE Len(counters)
    IN [i \in 1..n |-> <<values[i], counters[i]>>]

\* returns [ok, tmp]; ok = FALSE is an exception: zip() of None, or int() of
\* nan (ValueError)
original_X(values, counters, zipped_xy) ==
    LET rezip == ~ zipped_xy.given \/ zipped_xy.v = <<>>
        zipped == IF rezip THEN Zip(values.v, counters.v) ELSE zipped_xy.v
    IN IF rezip /\ (~ values.given \/ ~ counters.given)
       THEN [ok |-> FALSE, tmp |-> <<>>]
       ELSE IF \E i \in 1..Len(zipped) : zipped[i][2].t # "num"
       THEN [ok |-> FALSE, tmp |-> <<>>]
       ELSE [ok |-> TRUE, tmp |-> Expand(zipped)]

\* line 1004: the parameters of original_X
OriginalXParams == {"values", "counters", "zipped_xy"}

\* a call of original_X by keywords, kw mapping each keyword to its argument:
\* a keyword that names no parameter is a TypeError
CallOriginalX(kw) ==
    LET arg(name) == IF name \in DOMAIN kw THEN Arg(kw[name]) ELSE NoArg
    IN IF DOMAIN kw \subseteq OriginalXParams
       THEN original_X(arg("values"), arg("counters"), arg("zipped_xy"))
       ELSE [ok |-> FALSE, tmp |-> <<>>]

----------------------------------------------------------------------------
(* Input files.                                                             *)

\* lines 1576-1605: the dataset as read from its file.  header is the first
\* line (plot["all-data"][0]) and all_data the data lines after it, each split
\* on ","; plot["x"] and plot["y"] do not exist yet.  save_as and b_replace
\* are what saving_logic makes of an empty save-as field (line 1602).
NewPlot(graph_type, min_x, max_x, min_y, max_y, rows) ==
    [graph_type |-> graph_type,
     header |-> [min_x |-> min_x, max_x |-> max_x, min_y |-> min_y, max_y |-> max_y],
     all_data |-> rows,
     is_categorical_in_x |-> FALSE, is_categorical_in_y |-> FALSE,
     min_x |-> Str(min_x), max_x |-> Str(max_x),
     min_y |-> Str(min_y), max_y |-> Str(max_y),
     x |-> <<>>, y |-> <<>>,
     save_as |-> "", b_replace |-> FALSE]

SeqsUpTo(S, n) == UNION {[1..k -> S] : k \in 0..n}

GraphKinds == {"timeseries", "histogram", "bar", "pie"}
XTexts == {"0", "1", "2", "b"}
YTexts == {"-1", "1", "a"}
MinXTexts == {"", "0", "1", "b"}
MaxXTexts == {"", "0", "1", "b"}
MinYTexts == {"", "0", "1"}
MaxYTexts == {"", "0", "a"}

RowsOf(kind) ==
    CASE kind = "histogram" -> {<<x>> : x \in XTexts}
      [] kind = "timeseries" -> {<<x, y>> : x \in {T1, T2, "1"}, y \in YTexts}
      [] OTHER -> {<<x, y>> : x \in XTexts, y \in YTexts} \cup {<<"1">>}
XBoundsOf(kind, S) == IF kind = "timeseries" THEN {"", T1, T2, "1"} ELSE S

NoBars == [merged_x |-> <<>>, xticks_labels |-> <<>>, calls |-> <<>>]

\* no stat_plot worker followed, and the defaults of the switches and of the
\* save-as options: save_as and b_replace are what saving_logic makes of
\* --save-all-as (None when absent), groups what it makes of the entries of
\* --save-as, one per group
NoStat == [at |-> "none"]
None == "<None>"
NoOpts ==
    [no_stats |-> FALSE, no_distfit |-> FALSE, is_interactive |-> FALSE,
     stats_only |-> FALSE, distfit_only |-> FALSE, save_no_file |-> FALSE,
     save_as |-> None, b_replace |-> FALSE, groups |-> <<>>]

Init ==
    /\ \E kind \in GraphKinds :
         \E a \in XBoundsOf(kind, MinXTexts), b \in XBoundsOf(kind, MaxXTexts),
            c \in (IF kind = "histogram" THEN {""} ELSE MinYTexts),
            d \in (IF kind = "histogram" THEN {""} ELSE MaxYTexts),
            rows \in SeqsUpTo(RowsOf(kind), MaxRows) :
              plots = <<NewPlot(kind, a, b, c, d, rows)>>
    /\ cur = 1
    /\ pc = "parsed"
    /\ bars = NoBars
    /\ buckets_xy = <<>>
    /\ samples = <<>>
    /\ files = <<>>
    /\ graphs = <<[i \in 1..Len(plots) |-> i]>>
    /\ current_plot = IF plots = <<>> THEN "" ELSE plots[1].graph_type
    /\ warned = <<>>
    /\ stat = NoStat
    /\ opts = NoOpts
    /\ procs = <<>>
    /\ disk = {}
    /\ drawn = <<>>

----------------------------------------------------------------------------
(* Operations.                                                              *)

\* prepare_data() works through the datasets of the group in turn; for each
\* one it passes three positions: types inferred and bounds parsed ("typed"),
\* x ranged ("xranged"), y ranged.  The first uncaught exception ends the
\* program ("crashed").
Advance ==
    IF cur = Len(plots) THEN pc' = "prepared" /\ cur' = cur
    ELSE pc' = "parsed" /\ cur' = cur + 1

\* lines 1416-1450
InferStep ==
    /\ pc = "parsed"
    /\ LET a == InferTypes(plots[cur])
           b == IF a.ok THEN ParseBounds(a.plot) ELSE a
       IN IF b.ok
          THEN plots' = [plots EXCEPT ![cur] = b.plot] /\ pc' = "typed"
          ELSE plots' = plots /\ pc' = "crashed"
    /\ UNCHANGED <<cur, bars, buckets_xy, samples>>
    /\ UNCHANGED <<parse_vars, stat_vars, proc_vars, file_vars>>

\* lines 1454-1537
RangeXStep ==
    /\ pc = "typed"
    /\ IF plots[cur].graph_type = "histogram"
       THEN LET h == ClipHistogram(plots[cur])
            IN IF h.ok
               THEN plots' = [plots EXCEPT ![cur] = h.plot] /\ Advance
               ELSE plots' = plots /\ pc' = "crashed" /\ cur' = cur
       ELSE LET c == ClipX(plots[cur])
            IN /\ cur' = cur
               /\ IF c.ok
                  THEN plots' = [plots EXCEPT ![cur] = c.plot] /\ pc' = "xranged"
                  ELSE plots' = plots /\ pc' = "crashed"
    /\ UNCHANGED <<bars, buckets_xy, samples>>
    /\ UNCHANGED <<parse_vars, stat_vars, proc_vars, file_vars>>

\* lines 1539-1553
RangeYStep ==
    /\ pc = "xranged"
    /\ LET d == ClipY(plots[cur])
       IN IF d.ok
          THEN plots' = [plots EXCEPT ![cur] = d.plot] /\ Advance
          ELSE plots' = plots /\ pc' = "crashed" /\ cur' = cur
    /\ UNCHANGED <<bars, buckets_xy, samples>>
    /\ UNCHANGED <<parse_vars, stat_vars, proc_vars, file_vars>>

Next == InferStep \/ RangeXStep \/ RangeYStep

Spec == Init /\ [][Next]_vars

\* plot_group_bars -> do_plot_group_bars(gr, ...), for a bar or buckets group
\* that does not hold exactly one dataset (lines 1640-1646)
DoPlotGroupBars ==
    /\ pc = "prepared"
    /\ Len(plots) # 1
    /\ plots[1].graph_type \in {"bar", "buckets"}
    /\ IF MinYError(plots)
       THEN pc' = "crashed" /\ bars' = bars
       ELSE pc' = "plotted" /\ bars' = do_plot_group_bars(plots)
    /\ UNCHANGED <<plots, cur, buckets_xy, samples>>
    /\ UNCHANGED <<parse_vars, stat_vars, proc_vars, file_vars>>

BarXTexts == {"a", "b", "1"}
BarYTexts == {"1", "c"}
BarRows == {<<x, y>> : x \in BarXTexts, y \in BarYTexts} \cup {<<"a", "">>}

\* the data rows of a group, in file order, cut into n datasets: dataset i
\* holds the rows after cut i - 1 up to cut i
GroupOf(kind, n, flat, cuts) ==
    LET from(i) == IF i = 1 THEN 1 ELSE cuts[i - 1] + 1
        to(i) == IF i = n THEN Len(flat) ELSE cuts[i]
    IN [i \in 1..n |-> NewPlot(kind, "", "", "", "", SubSeq(flat, from(i), to(i)))]

InitBars ==
    /\ \E kind \in {"bar", "buckets"}, n \in 2..MaxPlots :
         \E flat \in SeqsUpTo(BarRows, MaxGroupRows), cuts \in [1..(n - 1) -> 0..MaxGroupRows] :
            /\ \A i \in 1..(n - 1) : cuts[i] <= Len(flat)
            /\ \A i \in 1..(n - 2) : cuts[i] <= cuts[i + 1]
            /\ plots = GroupOf(kind, n, flat, cuts)
    /\ cur = 1
    /\ pc = "parsed"
    /\ bars = NoBars
    /\ buckets_xy = <<>>
    /\ samples = <<>>
    /\ files = <<>>
    /\ graphs = <<[i \in 1..Len(plots) |-> i]>>
    /\ current_plot = IF plots = <<>> THEN "" ELSE plots[1].graph_type
    /\ warned = <<>>
    /\ stat = NoStat
    /\ opts = NoOpts
    /\ procs = <<>>
    /\ disk = {}
    /\ drawn = <<>>

NextBars == InferStep \/ RangeXStep \/ RangeYStep \/ DoPlotGroupBars

SpecBars == InitBars /\ [][NextBars]_vars

\* stat_plot, lines 1310 and 1333: original_X(zipped_xy = zipped_xy)
OriginalX ==
    /\ pc = "stats"
    /\ LET r == original_X(NoArg, NoArg, Arg(buckets_xy))
       IN IF r.ok THEN pc' = "expanded" /\ samples' = r.tmp
          ELSE pc' = "crashed" /\ samples' = samples
    /\ UNCHANGED <<plots, cur, bars, buckets_xy>>
    /\ UNCHANGED <<parse_vars, stat_vars, proc_vars, file_vars>>

\* the pairs stat_plot zips from a prepared buckets dataset (line 1098): x is
\* numeric and ascending, y is a float or the nan left by y-ranging, and
\* sum(y) is not zero (line 1099 divides by it)
PairValues == {Num(2), Num(4)}
PairCounts == {Num(-2), Num(0), Num(2), Num(3), Num(4), NaN}
RECURSIVE SumCounts(_)
SumCounts(s) == IF s = <<>> THEN 0 ELSE s[1][2].n + SumCounts(Tail(s))
PairSeqs ==
    {s \in SeqsUpTo(PairValues \X PairCounts, MaxPairs) :
        /\ \A i \in 1..(Len(s) - 1) : s[i][1].n <= s[i + 1][1].n
        /\ (\E i \in 1..Len(s) : s[i][2].t = "nan") \/ SumCounts(s) # 0}

InitExpand ==
    /\ plots = <<>>
    /\ cur = 1
    /\ pc = "stats"
    /\ bars = NoBars
    /\ buckets_xy \in PairSeqs
    /\ samples = <<>>
    /\ files = <<>>
    /\ graphs = <<[i \in 1..Len(plots) |-> i]>>
    /\ current_plot = IF plots = <<>> THEN "" ELSE plots[1].graph_type
    /\ warned = <<>>
    /\ stat = NoStat
    /\ opts = NoOpts
    /\ procs = <<>>
    /\ disk = {}
    /\ drawn = <<>>

NextExpand == OriginalX

SpecExpand == InitExpand /\ [][NextExpand]_vars

----------------------------------------------------------------------------
(* stat_plot, lines 1075-1379: one worker, followed through its stages.     *)
(* stat.x and stat.y are plot["x"] and plot["y"] as the worker receives     *)
(* them; the figures drawn by matplotlib are left out, the computations     *)
(* that can raise are kept.                                                 *)

RECURSIVE SumN(_)
SumN(s) == IF s = <<>> THEN 0 ELSE Head(s).n + SumN(Tail(s))
Sign(n) == IF n > 0 THEN 1 ELSE IF n < 0 THEN -1 ELSE 0
HasNaN(s) == \E i \in 1..Len(s) : s[i].t = "nan"
HasText(s) == \E i \in 1..Len(s) : s[i].t = "str"

\* line 1098: zipped_xy
ZippedXY(st) == Zip(st.x, st.y)

\* lines 1094-1100: the sign of avg ("nan" when avg is not a number), whether
\* the variance is negative and whether stddev is zero.  For buckets, with
\* S = sum(y) and A = sum(y * x), avg is A / S and the variance is
\* sum(y * (x * S - A)^2) / S^3 (the members of the model count halves).
WeightS(st) == SumN(st.y)
\* (mutant of WeightA: the values summed without their frequencies)
WeightAUnweighted(st) == SumN([i \in 1..Len(st.x) |-> Num(2 * st.x[i].n)])
WeightA(st) == SumN([i \in 1..Len(st.x) |-> Num(st.y[i].n * st.x[i].n)])
WeightV(st) ==
    SumN([i \in 1..Len(st.x) |->
            Num(st.y[i].n * (st.x[i].n * WeightS(st) - WeightA(st)) * (st.x[i].n * WeightS(st) - WeightA(st)))])
MomentsError(st) ==
    IF st.kind = "buckets"
    THEN /\ ~ HasNaN(st.y)
         /\ \/ WeightS(st) = 0                              \* ZeroDivisionError
            \/ Sign(WeightV(st)) * Sign(WeightS(st)) < 0    \* math.pow: ValueError
    ELSE \/ HasText(st.x)                                   \* fmean: TypeError
         \/ Len(st.x) < 2                                   \* fmean, stdev: StatisticsError
SignName(n) == IF n > 0 THEN "pos" ELSE IF n < 0 THEN "neg" ELSE "zero"
AvgSign(st) ==
    IF st.kind = "buckets"
    THEN IF HasNaN(st.y) THEN "nan" ELSE SignName(Sign(WeightA(st)) * Sign(WeightS(st)))
    ELSE SignName(SumN(st.x))
StddevZero(st) ==
    IF st.kind = "buckets"
    THEN ~ HasNaN(st.y) /\ WeightV(st) = 0
    ELSE \A i \in 1..Len(st.x) : st.x[i] = st.x[1]

\* line 1149: a = 1.0/(stddev * math.sqrt(math.tau))
NormalError(st) == st.stddev_zero

\* line 1190: math.log(avg) and math.factorial(x) for x in x_values.  For
\* buckets x_values is plot["x"], floats: math.factorial refuses every float
\* from Python 3.10 on and takes the whole non-negative ones before
\* (st.float_factorial).  Otherwise x_values are the histogram's bin edges cut
\* to int, which run from min(x) to max(x).
FactorialError(st) ==
    IF st.kind = "buckets"
    THEN \/ ~ st.float_factorial
         \/ \E i \in 1..Len(st.x) : st.x[i].n < 0 \/ st.x[i].n % 2 # 0
    ELSE \E i \in 1..Len(st.x) : st.x[i].n <= -2
PoissonError(st) == st.avg_sign \in {"neg", "zero"} \/ FactorialError(st)

\* line 1241: avg_exp = 1.0 / avg
ExponentialError(st) == st.avg_sign = "zero"

\* lines 1310 and 1333: stats.quantiles(original_X(zipped_xy = zipped_xy), n = 4)
\* for buckets, stats.quantiles(plot["x"], n = 4) otherwise; fewer than two
\* data points raise StatisticsError
QuartilesError(st) ==
    IF st.kind = "buckets"
    THEN LET r == original_X(NoArg, NoArg, Arg(ZippedXY(st)))
         IN ~ r.ok \/ Len(r.tmp) < 2
    ELSE Len(st.x) < 2

\* line 1338: sorted(Counter(plot["x"]).items()), as (value, count) pairs; a
\* count is a whole number (two halves)
CounterOf(x) ==
    LET sx == PySortedValues(x)
        firsts == SelectSeq([i \in 1..Len(sx) |-> <<i, sx[i]>>],
                            LAMBDA p : p[1] = 1 \/ sx[p[1] - 1] # p[2])
    IN [k \in 1..Len(firsts) |->
          <<firsts[k][2], Num(2 * Cardinality({i \in 1..Len(sx) : sx[i] = firsts[k][2]}))>>]

\* lines 1335-1345: counter, tot, cdf and y_values; an entry of y_values is
\* the pair <<cdf[i], tot>>, standing for cdf[i] / tot
RECURSIVE Cumulated(_)
Cumulated(counter) ==
    IF counter = <<>> THEN <<>>
    ELSE LET c == Cumulated(SubSeq(counter, 1, Len(counter) - 1))
         IN Append(c, counter[Len(counter)][2].n + (IF c = <<>> THEN 0 ELSE c[Len(c)]))
CdfOf(st) ==
    LET counter == IF st.kind = "buckets" THEN ZippedXY(st) ELSE CounterOf(st.x)
        tot == SumN([i \in 1..Len(counter) |-> counter[i][2]])
        cdf == Cumulated(counter)
    IN [i \in 1..Len(cdf) |-> <<cdf[i], tot>>]

\* the worker dies of an uncaught exception raised in stage at
StatCrash(at) == stat' = [stat EXCEPT !.at = "crashed", !.failed_at = at]

\* lines 1094-1100
StatMoments ==
    /\ stat.at = "start"
    /\ IF MomentsError(stat) THEN StatCrash("moments")
       ELSE stat' = [stat EXCEPT !.at = "moments", !.avg_sign = AvgSign(stat),
                                 !.stddev_zero = StddevZero(stat)]
    /\ UNCHANGED <<plots, cur, pc, bars, buckets_xy, samples, parse_vars, proc_vars, file_vars>>

\* lines 1144-1166: the normal curve
StatNormal ==
    /\ stat.at = "moments"
    /\ IF NormalError(stat) THEN StatCrash("normal")
       ELSE stat' = [stat EXCEPT !.at = "normal"]
    /\ UNCHANGED <<plots, cur, pc, bars, buckets_xy, samples, parse_vars, proc_vars, file_vars>>

\* lines 1168-1202: the Poisson curve
StatPoisson ==
    /\ stat.at = "normal"
    /\ IF PoissonError(stat) THEN StatCrash("poisson")
       ELSE stat' = [stat EXCEPT !.at = "poisson"]
    /\ UNCHANGED <<plots, cur, pc, bars, buckets_xy, samples, parse_vars, proc_vars, file_vars>>

\* lines 1221-1236: the Poisson quartiles, inside try ... except
StatPoissonQuartiles ==
    /\ stat.at = "poisson"
    /\ stat' = [stat EXCEPT !.at = "poisson_quartiles"]
    /\ UNCHANGED <<plots, cur, pc, bars, buckets_xy, samples, parse_vars, proc_vars, file_vars>>

\* lines 1238-1278: the exponential curve
StatExponential ==
    /\ stat.at = "poisson_quartiles"
    /\ IF ExponentialError(stat) THEN StatCrash("exponential")
       ELSE stat' = [stat EXCEPT !.at = "exponential"]
    /\ UNCHANGED <<plots, cur, pc, bars, buckets_xy, samples, parse_vars, proc_vars, file_vars>>

\* lines 1280-1302: the uniform curve
StatUniform ==
    /\ stat.at = "exponential"
    /\ stat' = [stat EXCEPT !.at = "uniform"]
    /\ UNCHANGED <<plots, cur, pc, bars, buckets_xy, samples, parse_vars, proc_vars, file_vars>>

\* lines 1304-1322: the quartiles
StatQuartiles ==
    /\ stat.at = "uniform"
    /\ IF QuartilesError(stat) THEN StatCrash("quartiles")
       ELSE stat' = [stat EXCEPT !.at = "quartiles"]
    /\ UNCHANGED <<plots, cur, pc, bars, buckets_xy, samples, parse_vars, proc_vars, file_vars>>

\* lines 1324-1363: the cumulative distribution function
StatCDF ==
    /\ stat.at = "quartiles"
    /\ stat' = [stat EXCEPT !.at = "cdf", !.y_values = CdfOf(stat)]
    /\ UNCHANGED <<plots, cur, pc, bars, buckets_xy, samples, parse_vars, proc_vars, file_vars>>

\* lines 1365-1379: the save step and the end of the worker
StatSave ==
    /\ stat.at = "cdf"
    /\ stat' = [stat EXCEPT !.at = "saved"]
    /\ UNCHANGED <<plots, cur, pc, bars, buckets_xy, samples, parse_vars, proc_vars, file_vars>>

\* the dataset handed to the worker (lines 1733, 1080-1091).  Buckets: x as
\* prepare_data left it, numeric and ascending, y floats or the nan of
\* y-ranging.  Histogram: x sorted, floats or texts.  Timeseries: x is the
\* second field of every data row, as floats, in file order.
StatXValues == {Num(-2), Num(0), Num(2), Num(3), Num(4)}
StatYValues == {Num(-2), Num(0), Num(2), Num(3), NaN}
Ascending(s) == \A i \in 1..(Len(s) - 1) : PyLe(s[i], s[i + 1])
StatInputs(kind) ==
    CASE kind = "buckets" ->
           {[x |-> [i \in 1..Len(s) |-> s[i][1]], y |-> [i \in 1..Len(s) |-> s[i][2]]] :
              s \in {t \in SeqsUpTo(StatXValues \X StatYValues, MaxSamples) :
                        t # <<>> /\ Ascending([i \in 1..Len(t) |-> t[i][1]])}}
      [] kind = "histogram" ->
           {[x |-> s, y |-> <<>>] :
              s \in {t \in SeqsUpTo(StatXValues, MaxSamples) : t # <<>> /\ Ascending(t)}
                    \cup {<<Str("a")>>, <<Str("a"), Str("b")>>}}
      [] OTHER ->
           {[x |-> s, y |-> <<>>] : s \in SeqsUpTo(StatXValues, MaxSamples) \ {<<>>}}

InitStat ==
    /\ plots = <<>>
    /\ cur = 1
    /\ pc = "stats"
    /\ bars = NoBars
    /\ buckets_xy = <<>>
    /\ samples = <<>>
    /\ files = <<>>
    /\ graphs = <<>>
    /\ current_plot = ""
    /\ warned = <<>>
    /\ \E kind \in {"buckets", "histogram", "timeseries"}, ff \in BOOLEAN :
         \E in \in StatInputs(kind) :
            stat = [at |-> "start", kind |-> kind, x |-> in.x, y |-> in.y,
                    float_factorial |-> ff, avg_sign |-> "zero", stddev_zero |-> FALSE,
                    y_values |-> <<>>, failed_at |-> ""]
    /\ opts = NoOpts
    /\ procs = <<>>
    /\ disk = {}
    /\ drawn = <<>>

\* distfit_plot, lines 1016-1073, followed through its stages like stat_plot.
\* lines 1021-1040: np_plot, the samples handed to distfit
DistfitData ==
    /\ stat.at = "distfit_start"
    /\ IF stat.kind = "buckets"
       THEN LET r == CallOriginalX([X |-> stat.x, Y |-> stat.y])
            IN IF r.ok THEN stat' = [stat EXCEPT !.at = "distfit_data", !.np_plot = r.tmp]
               ELSE StatCrash("distfit_data")
       ELSE stat' = [stat EXCEPT !.at = "distfit_data", !.np_plot = stat.x]
    /\ UNCHANGED <<plots, cur, pc, bars, buckets_xy, samples, parse_vars, proc_vars, file_vars>>

\* lines 1042-1063: the fit and its four panels; whether the distfit package
\* raises on the samples is left open
DistfitFit ==
    /\ stat.at = "distfit_data"
    /\ \/ stat' = [stat EXCEPT !.at = "distfit_fit"]
       \/ StatCrash("distfit_fit")
    /\ UNCHANGED <<plots, cur, pc, bars, buckets_xy, samples, parse_vars, proc_vars, file_vars>>

\* lines 1064-1071: the save step and the end of the worker
DistfitSave ==
    /\ stat.at = "distfit_fit"
    /\ stat' = [stat EXCEPT !.at = "saved"]
    /\ UNCHANGED <<plots, cur, pc, bars, buckets_xy, samples, parse_vars, proc_vars, file_vars>>

\* the two workers that can be started for a dataset, each on the dataset as
\* it receives it
InitSamples ==
    /\ plots = <<>>
    /\ cur = 1
    /\ pc = "stats"
    /\ bars = NoBars
    /\ buckets_xy = <<>>
    /\ samples = <<>>
    /\ files = <<>>
    /\ graphs = <<>>
    /\ current_plot = ""
    /\ warned = <<>>
    /\ \E kind \in {"buckets", "histogram", "timeseries"}, ff \in BOOLEAN,
          start \in {"start", "distfit_start"} :
         \E in \in StatInputs(kind) :
            stat = [at |-> start, kind |-> kind, x |-> in.x, y |-> in.y,
                    float_factorial |-> ff, avg_sign |-> "zero", stddev_zero |-> FALSE,
                    y_values |-> <<>>, failed_at |-> "", np_plot |-> <<>>]
    /\ opts = NoOpts
    /\ procs = <<>>
    /\ disk = {}
    /\ drawn = <<>>

NextStat ==
    \/ StatMoments \/ StatNormal \/ StatPoisson \/ StatPoissonQuartiles
    \/ StatExponential \/ StatUniform \/ StatQuartiles \/ StatCDF \/ StatSave

SpecStat == InitStat /\ [][NextStat]_vars

NextSamples == NextStat \/ DistfitData \/ DistfitFit \/ DistfitSave

SpecSamples == InitSamples /\ [][NextSamples]_vars

----------------------------------------------------------------------------
(* The parse loop of the main program, lines 1565-1606.  files holds the    *)
(* groups still to be read, the group being read first; a file is a record  *)
(* [name, kind], kind being the first field of its header line.             *)

GRAPH_TYPES ==
    {"timeseries", "histogram", "bar", "line", "scatter", "stem", "pie", "buckets"}

\* (mutant of Mismatch: every file is taken as consistent with its group)
MismatchNever(kind) == FALSE

\* line 1581: current_plot and tmp[0] != current_plot
Mismatch(kind) == current_plot # "" /\ kind # current_plot

\* the input left once the first file of the first group is done with: the
\* next turn of the loop of line 1573, or of line 1565 at the end of a group
AfterFile(fs) == IF Len(fs[1]) = 1 THEN Tail(fs) ELSE <<Tail(fs[1])>> \o Tail(fs)

\* (mutant of AfterSkip: a skipped file ends its group)
AfterSkipDropGroup(fs) == Tail(fs)

\* line 1584: continue, the loop goes on with the file after the skipped one
AfterSkip(fs) == AfterFile(fs)

\* the data every file of the parse model holds: one row "1,1"
ParsedPlot(kind) == NewPlot(kind, "", "", "", "", << <<"1", "1">> >>)

\* lines 1566-1604, for one file: the group's entry is created with its first
\* file (lines 1566-1571); a file of another type than its group's is skipped
\* with a warning, a type outside GRAPH_TYPES ends the program (exit(1)), any
\* other file is appended to its group.  prepare_data() follows the last file.
ParseFile ==
    /\ pc = "parsing"
    /\ LET f == files[1][1]
           started == IF current_plot = "" THEN Append(graphs, <<>>) ELSE graphs
           last == Len(started)
           rest == IF Mismatch(f.kind) THEN AfterSkip(files) ELSE AfterFile(files)
           group_ends == Len(rest) < Len(files)
       IN IF Mismatch(f.kind)
          THEN /\ warned' = Append(warned, f.name)
               /\ plots' = plots /\ graphs' = started
               /\ current_plot' = IF group_ends THEN "" ELSE current_plot
               /\ files' = rest
               /\ pc' = IF rest = <<>> THEN "parsed" ELSE "parsing"
          ELSE IF f.kind \notin GRAPH_TYPES
          THEN /\ pc' = "aborted"
               /\ plots' = plots /\ graphs' = started
               /\ UNCHANGED <<files, current_plot, warned>>
          ELSE /\ plots' = Append(plots, ParsedPlot(f.kind))
               /\ graphs' = [started EXCEPT ![last] = Append(@, Len(plots) + 1)]
               /\ current_plot' = IF group_ends THEN "" ELSE f.kind
               /\ files' = rest
               /\ warned' = warned
               /\ pc' = IF rest = <<>> THEN "parsed" ELSE "parsing"
    /\ UNCHANGED <<cur, bars, buckets_xy, samples, stat_vars, proc_vars, file_vars>>

\* the command line: up to MaxFiles files in one or more --files groups
FileKinds == {"bar", "pie", "bogus"}
GroupsOf(kinds, starts) ==
    LET heads == {1} \cup starts
        group(i) == Cardinality({h \in heads : h <= i})
        first(g) == CHOOSE i \in heads : group(i) = g
        size(g) == Cardinality({i \in 1..Len(kinds) : group(i) = g})
    IN [g \in 1..Cardinality(heads) |->
          [k \in 1..size(g) |-> [name |-> <<g, k>>, kind |-> kinds[first(g) + k - 1]]]]

InitParse ==
    /\ plots = <<>>
    /\ cur = 1
    /\ pc = "parsing"
    /\ bars = NoBars
    /\ buckets_xy = <<>>
    /\ samples = <<>>
    /\ \E kinds \in SeqsUpTo(FileKinds, MaxFiles) \ {<<>>} :
         \E starts \in SUBSET (2..Len(kinds)) :
            files = GroupsOf(kinds, starts)
    /\ graphs = <<>>
    /\ current_plot = ""
    /\ warned = <<>>
    /\ stat = NoStat
    /\ opts = NoOpts
    /\ procs = <<>>
    /\ disk = {}
    /\ drawn = <<>>

NextParse == ParseFile \/ InferStep \/ RangeXStep \/ RangeYStep

SpecParse == InitParse /\ [][NextParse]_vars

----------------------------------------------------------------------------
(* The worker processes of the main program, lines 1705-1759.  After        *)
(* prepare_data and the display of the graphs the controlling process       *)
(* starts one process per eligible dataset for stat_plot, then one for      *)
(* distfit_plot, and then either waits for the Enter key and terminates     *)
(* them (interactive mode) or joins them (batch mode).  procs is            *)
(* running_processes: for each process its target, the dataset it was given,*)
(* whether it still runs, and whether the controlling process has sent it   *)
(* terminate() or returned from its join().  cur is the loop variable of    *)
(* the loop the controlling process is in.                                  *)

\* lines 1726-1727: the datasets in the order the two nested loops visit them
RECURSIVE FlatGraphs(_)
FlatGraphs(gs) == IF gs = <<>> THEN <<>> ELSE Head(gs) \o FlatGraphs(Tail(gs))

\* (mutant of Eligible: the graph type is not looked at)
EligibleAnyKind(plot) == ~ plot.is_categorical_in_y

\* lines 1728-1732: the datasets a process is started for
Eligible(plot) ==
    /\ plot.graph_type \in {"histogram", "timeseries", "buckets"}
    /\ ~ plot.is_categorical_in_y

\* a file path: a name, the tag a worker inserts before the extension, and
\* whether the timestamp suffix was inserted
Path(name, tag) == [name |-> name, tag |-> tag, stamp |-> FALSE]
NoPath == Path(None, "")

\* lines 1733-1735: p = Process(target = ..., args = (graph, plot)); p.start()
\* data is the dataset as pickled into the process, at its position in
\* the target: "started" or, after lines 1021-1040 resp. 1080-1091, "prepared",
\* and later "checked" (os.path.exists answered in save_graph) and "written"
\* (save_graph left); to is the path save_graph settled on, once checked
Process(target, i) ==
    [target |-> target, plot |-> i, state |-> "running",
     terminated |-> FALSE, joined |-> FALSE,
     at |-> "started", data |-> plots[i], to |-> NoPath]

\* lines 1021-1040 and 1080-1091: the dataset a target works on; for a
\* timeseries plot["x"] becomes the second column of the data lines
PreparedData(plot_data) ==
    IF plot_data.graph_type = "timeseries"
    THEN [plot_data EXCEPT
            !.x = [k \in 1..Len(plot_data.all_data) |-> ToFloat(plot_data.all_data[k][2])]]
    ELSE plot_data

\* (mutant of ParentPlots: the process works on the dataset of the
\* controlling process itself)
ParentPlotsShared(d, data) == [plots EXCEPT ![d] = data]

\* line 1710, set_start_method("spawn"): a process runs in memory of its own,
\* what it assigns does not reach the datasets of the controlling process
ParentPlots(d, data) == plots

\* (mutant of Signalled: terminate() is not called)
SignalledNot(p) == p

\* line 1753: p.terminate()
Signalled(p) == [p EXCEPT !.terminated = TRUE]

\* (mutant of Joinable: join() returns at once)
JoinableAlways(p) == TRUE

\* line 1757: p.join() returns once the process has ended
Joinable(p) == p.state # "running"

\* lines 56-76: saving_logic(save_as, save_as_format) of a save-as text
HasBang(text) == text \in {"!a", "!b", "!g", "!h", "!p"}
WithoutBang(text) ==
    CASE text = "!a" -> "a" [] text = "!b" -> "b" [] text = "!g" -> "g"
      [] text = "!h" -> "h" [] text = "!p" -> "p" [] OTHER -> text
saving_logic(save_as) ==
    IF save_as = None THEN [save_as |-> None, b_replace |-> FALSE]
    ELSE [save_as |-> WithoutBang(save_as), b_replace |-> HasBang(save_as)]

\* line 355: the file is overwritten when graph["b-replace"] says so, the
\* b-replace of --save-all-as, whichever graph is saved
Overwrites(own_replace) == opts.b_replace

\* lines 349-362: the path save_graph writes to, NoPath if none; d is the set
\* of existing paths
save_graph(file, own_replace, d) ==
    IF opts.save_no_file \/ file.name = None THEN NoPath
    ELSE IF file \in d /\ ~ Overwrites(own_replace)
         THEN [file EXCEPT !.stamp = TRUE]
         ELSE file

\* lines 1567-1569: save-as and b-replace of group g
GroupSave(g) ==
    IF g <= Len(opts.groups) THEN opts.groups[g] ELSE saving_logic(None)

\* lines 1631-1633: every dataset in a graph of its own
IndividualGraphs ==
    LET flat == FlatGraphs(graphs)
    IN [k \in 1..Len(flat) |->
          [level |-> "individual", index |-> flat[k],
           save_as |-> plots[flat[k]].save_as, b_replace |-> plots[flat[k]].b_replace]]

\* lines 1640-1650: every group of other than one dataset in a graph of its own
GroupGraphs ==
    SelectSeq([g \in 1..Len(graphs) |->
                 [level |-> "group", index |-> g,
                  save_as |-> GroupSave(g).save_as, b_replace |-> GroupSave(g).b_replace]],
              LAMBDA r : Len(graphs[r.index]) # 1)

\* lines 1660-1668: the graphs of the global page
RECURSIVE NbGraphs(_)
NbGraphs(gs) ==
    IF gs = <<>> THEN 0
    ELSE (IF plots[Head(gs)[1]].graph_type = "pie" THEN Len(Head(gs))
          ELSE IF Len(Head(gs)) > 1 THEN 1 ELSE 0) + NbGraphs(Tail(gs))

\* lines 1652-1703: the global page
GlobalGraphs ==
    IF Len(graphs) > 1 /\ NbGraphs(graphs) > 1
    THEN <<[level |-> "global", index |-> 0,
            save_as |-> opts.save_as, b_replace |-> opts.b_replace]>>
    ELSE <<>>

\* the graphs in the order they are drawn: each is saved with save_graph,
\* which finds the files of the graphs saved before it
RECURSIVE SaveAll(_, _, _)
SaveAll(todo, d, done) ==
    IF todo = <<>> THEN [disk |-> d, drawn |-> done]
    ELSE LET g == Head(todo)
             file == Path(g.save_as, "")
             to == save_graph(file, g.b_replace, d)
         IN SaveAll(Tail(todo),
                    IF to = NoPath THEN d ELSE d \cup {to},
                    Append(done, [level |-> g.level, index |-> g.index,
                                  b_replace |-> g.b_replace,
                                  existed |-> file \in d, file |-> file, to |-> to]))

\* lines 1627-1703: the graphs are drawn and saved, unless --stats-only or
\* --distfit-only is given; no dataset changes its graph type or its
\* categorical flags.  An empty save-as is a name like any other.
ShowGraphs ==
    /\ pc = "prepared"
    /\ pc' = "stats_loop"
    /\ cur' = 1
    /\ LET todo == IF opts.stats_only \/ opts.distfit_only THEN <<>>
                   ELSE IndividualGraphs \o GroupGraphs \o GlobalGraphs
           res == SaveAll(todo, disk, <<>>)
       IN disk' = res.disk /\ drawn' = res.drawn
    /\ UNCHANGED <<plots, bars, buckets_xy, samples, procs, opts>>
    /\ UNCHANGED <<parse_vars, stat_vars>>

\* one pass of a start loop for the given target; next is the position after
\* the loop
StartLoop(skipped, target, next) ==
    LET flat == FlatGraphs(graphs)
    IN IF skipped \/ cur > Len(flat)
       THEN pc' = next /\ cur' = 1 /\ procs' = procs
       ELSE /\ pc' = pc
            /\ cur' = cur + 1
            /\ procs' = IF Eligible(plots[flat[cur]])
                        THEN Append(procs, Process(target, flat[cur]))
                        ELSE procs

\* lines 1713-1735
StatsStep ==
    /\ pc = "stats_loop"
    /\ StartLoop(opts.no_stats, "stat_plot", "distfit_loop")
    /\ UNCHANGED <<plots, bars, buckets_xy, samples, opts>>
    /\ UNCHANGED <<parse_vars, stat_vars, file_vars>>

\* lines 1737-1750
DistfitStep ==
    /\ pc = "distfit_loop"
    /\ StartLoop(opts.no_distfit, "distfit_plot",
                 IF opts.is_interactive THEN "input" ELSE "joining")
    /\ UNCHANGED <<plots, bars, buckets_xy, samples, opts>>
    /\ UNCHANGED <<parse_vars, stat_vars, file_vars>>

\* line 1751: input("Press <enter> to exit") returns
PressEnter ==
    /\ pc = "input"
    /\ pc' = "terminating"
    /\ UNCHANGED <<plots, cur, bars, buckets_xy, samples, procs, opts>>
    /\ UNCHANGED <<parse_vars, stat_vars, file_vars>>

\* lines 1752-1753 and 1759
TerminateStep ==
    /\ pc = "terminating"
    /\ IF cur > Len(procs)
       THEN pc' = "closed" /\ cur' = cur /\ procs' = procs
       ELSE /\ pc' = pc
            /\ cur' = cur + 1
            /\ procs' = [procs EXCEPT ![cur] = Signalled(@)]
    /\ UNCHANGED <<plots, bars, buckets_xy, samples, opts>>
    /\ UNCHANGED <<parse_vars, stat_vars, file_vars>>

\* lines 1756-1757 and 1759
JoinStep ==
    /\ pc = "joining"
    /\ IF cur > Len(procs)
       THEN pc' = "closed" /\ cur' = cur /\ procs' = procs
       ELSE /\ Joinable(procs[cur])
            /\ pc' = pc
            /\ cur' = cur + 1
            /\ procs' = [procs EXCEPT ![cur].joined = TRUE]
    /\ UNCHANGED <<plots, bars, buckets_xy, samples, opts>>
    /\ UNCHANGED <<parse_vars, stat_vars, file_vars>>

\* a started process returns from stat_plot or distfit_plot, or ends on an
\* exception of its own
WorkerFinish(i) ==
    /\ i \in 1..Len(procs)
    /\ procs[i].state = "running"
    /\ procs' = [procs EXCEPT ![i].state = "done"]
    /\ UNCHANGED <<plots, cur, pc, bars, buckets_xy, samples, opts>>
    /\ UNCHANGED <<parse_vars, stat_vars, file_vars>>

\* lines 1021-1040 and 1080-1091: a started process prepares its data
WorkerPrepare(i) ==
    /\ i \in 1..Len(procs)
    /\ procs[i].state = "running"
    /\ procs[i].at = "started"
    /\ LET d == PreparedData(procs[i].data)
       IN /\ procs' = [procs EXCEPT ![i].data = d, ![i].at = "prepared"]
          /\ plots' = ParentPlots(procs[i].plot, d)
    /\ UNCHANGED <<cur, pc, bars, buckets_xy, samples, opts>>
    /\ UNCHANGED <<parse_vars, stat_vars, file_vars>>

\* lines 1093-1363 resp. 1041-1063: whether the target gets as far as its
\* save step on the dataset.  stat_plot: none of its computations raises
\* (math.factorial taking floats or not, with the version of Python);
\* distfit_plot: the samples are obtained, what the distfit package does with
\* them is left open.
ReachesSave(target, plot_data) ==
    LET d == PreparedData(plot_data)
        st0(ff) == [kind |-> d.graph_type, x |-> d.x, y |-> d.y, float_factorial |-> ff]
        st(ff) == [kind |-> d.graph_type, x |-> d.x, y |-> d.y, float_factorial |-> ff,
                   avg_sign |-> AvgSign(st0(ff)), stddev_zero |-> StddevZero(st0(ff))]
    IN IF target = "stat_plot"
       THEN \E ff \in BOOLEAN :
               /\ ~ MomentsError(st0(ff))
               /\ ~ NormalError(st(ff)) /\ ~ PoissonError(st(ff))
               /\ ~ ExponentialError(st(ff)) /\ ~ QuartilesError(st(ff))
       ELSE d.graph_type # "buckets" \/ CallOriginalX([X |-> d.x, Y |-> d.y]).ok

\* lines 1371 and 1065: the file name a target hands to save_graph
ArtifactPath(target, plot_data) ==
    Path(plot_data.save_as, IF target = "stat_plot" THEN "_stat" ELSE "_stat-distfit")

\* lines 1075-1371 resp. 1016-1065 and 349-360: a process works its way to
\* save_graph and has os.path.exists answered; with --save-no-file save_graph
\* returns at once
WorkerCheck(i) ==
    /\ i \in 1..Len(procs)
    /\ procs[i].state = "running"
    /\ procs[i].at = "started"
    /\ ReachesSave(procs[i].target, procs[i].data)
    /\ LET to == save_graph(ArtifactPath(procs[i].target, procs[i].data),
                            procs[i].data.b_replace, disk)
       IN procs' = [procs EXCEPT ![i].to = to,
                                 ![i].at = IF to = NoPath THEN "written" ELSE "checked"]
    /\ UNCHANGED <<plots, cur, pc, bars, buckets_xy, samples, opts>>
    /\ UNCHANGED <<parse_vars, stat_vars, file_vars>>

\* line 362: plt.savefig writes the file
WorkerWrite(i) ==
    /\ i \in 1..Len(procs)
    /\ procs[i].state = "running"
    /\ procs[i].at = "checked"
    /\ procs' = [procs EXCEPT ![i].at = "written"]
    /\ disk' = disk \cup {procs[i].to}
    /\ UNCHANGED <<plots, cur, pc, bars, buckets_xy, samples, opts, drawn>>
    /\ UNCHANGED <<parse_vars, stat_vars>>

\* the SIGTERM of terminate() ends a process that still runs
WorkerDie(i) ==
    /\ i \in 1..Len(procs)
    /\ procs[i].state = "running"
    /\ procs[i].terminated
    /\ procs' = [procs EXCEPT ![i].state = "killed"]
    /\ UNCHANGED <<plots, cur, pc, bars, buckets_xy, samples, opts>>
    /\ UNCHANGED <<parse_vars, stat_vars, file_vars>>

\* the most processes a run can start: two per dataset
MaxProcs == 2 * MaxPlots

\* the datasets of the worker model: one data row each
WorkerRows(kind) ==
    CASE kind = "histogram" -> {<<"1">>}
      [] kind = "timeseries" -> {<<T1, "1">>, <<T1, "a">>}
      [] kind = "buckets" -> {<<"1", "1">>, <<"1", "a">>}
      [] OTHER -> {<<"1", "1">>}
WorkerKinds == {"timeseries", "histogram", "buckets", "bar"}
WorkerPlots ==
    UNION {{NewPlot(kind, "", "", "", "", <<row>>) : row \in WorkerRows(kind)} :
           kind \in WorkerKinds}

\* lines 210-240: the three switches of the command line
Switches ==
    {[NoOpts EXCEPT !.no_stats = a, !.no_distfit = b, !.is_interactive = c] :
        a \in BOOLEAN, b \in BOOLEAN, c \in BOOLEAN}

InitWorkers ==
    /\ plots \in SeqsUpTo(WorkerPlots, MaxPlots) \ {<<>>}
    /\ opts \in Switches
    /\ cur = 1
    /\ pc = "parsed"
    /\ bars = NoBars
    /\ buckets_xy = <<>>
    /\ samples = <<>>
    /\ files = <<>>
    /\ graphs = <<[i \in 1..Len(plots) |-> i]>>
    /\ current_plot = plots[1].graph_type
    /\ warned = <<>>
    /\ stat = NoStat
    /\ procs = <<>>
    /\ disk = {}
    /\ drawn = <<>>

NextWorkers ==
    \/ InferStep \/ RangeXStep \/ RangeYStep
    \/ ShowGraphs \/ StatsStep \/ DistfitStep
    \/ PressEnter \/ TerminateStep \/ JoinStep
    \/ \E i \in 1..MaxProcs : WorkerFinish(i)
    \/ \E i \in 1..MaxProcs : WorkerDie(i)

SpecWorkers == InitWorkers /\ [][NextWorkers]_vars

\* The processes as they are started and work on their data, up to the point
\* where the controlling process waits for the Enter key or joins them.
NextIsolation ==
    \/ InferStep \/ RangeXStep \/ RangeYStep
    \/ ShowGraphs \/ StatsStep \/ DistfitStep
    \/ \E i \in 1..MaxProcs : WorkerPrepare(i)
    \/ \E i \in 1..MaxProcs : WorkerFinish(i)

SpecIsolation == InitWorkers /\ [][NextIsolation]_vars

\* The start of the processes for every combination of the switches that
\* bear on it, and for datasets with a Categorical x as well.
StartRows(kind) ==
    CASE kind = "histogram" -> {<<"1">>, <<"a">>}
      [] kind = "timeseries" -> {<<T1, "1">>, <<T1, "a">>}
      [] kind = "buckets" -> {<<"1", "1">>, <<"a", "1">>, <<"1", "a">>}
      [] OTHER -> {<<"1", "1">>}
StartPlots ==
    UNION {{NewPlot(kind, "", "", "", "", <<row>>) : row \in StartRows(kind)} :
           kind \in WorkerKinds}
StartSwitches ==
    {[NoOpts EXCEPT !.no_stats = a, !.no_distfit = b, !.stats_only = c, !.distfit_only = d] :
        a \in BOOLEAN, b \in BOOLEAN, c \in BOOLEAN, d \in BOOLEAN}

InitStart ==
    /\ plots \in SeqsUpTo(StartPlots, MaxPlots) \ {<<>>}
    /\ opts \in StartSwitches
    /\ cur = 1
    /\ pc = "parsed"
    /\ bars = NoBars
    /\ buckets_xy = <<>>
    /\ samples = <<>>
    /\ files = <<>>
    /\ graphs = <<[i \in 1..Len(plots) |-> i]>>
    /\ current_plot = plots[1].graph_type
    /\ warned = <<>>
    /\ stat = NoStat
    /\ procs = <<>>
    /\ disk = {}
    /\ drawn = <<>>

NextStart ==
    \/ InferStep \/ RangeXStep \/ RangeYStep
    \/ ShowGraphs \/ StatsStep \/ DistfitStep

SpecStart == InitStart /\ [][NextStart]_vars

\* The processes as they save their figures: datasets that both targets can
\* work through, two bins of a histogram, each with the save-as of its header.
ArtifactPlot(text) ==
    [NewPlot("histogram", "", "", "", "", << <<"1">>, <<"2">> >>)
        EXCEPT !.save_as = saving_logic(text).save_as,
               !.b_replace = saving_logic(text).b_replace]
ArtifactPlots == {ArtifactPlot(text) : text \in {"", "a", "!a", "b"}}

InitArtifacts ==
    /\ plots \in SeqsUpTo(ArtifactPlots, MaxPlots) \ {<<>>}
    /\ \E n \in BOOLEAN, all \in {None, "!p"} :
          opts = [NoOpts EXCEPT !.save_no_file = n,
                                !.save_as = saving_logic(all).save_as,
                                !.b_replace = saving_logic(all).b_replace]
    /\ disk \in {{}, {Path(name, tag) : name \in {"", "a", "b"}, tag \in {"_stat", "_stat-distfit"}}}
    /\ drawn = <<>>
    /\ cur = 1
    /\ pc = "parsed"
    /\ bars = NoBars
    /\ buckets_xy = <<>>
    /\ samples = <<>>
    /\ files = <<>>
    /\ graphs = <<[i \in 1..Len(plots) |-> i]>>
    /\ current_plot = plots[1].graph_type
    /\ warned = <<>>
    /\ stat = NoStat
    /\ procs = <<>>

\* (a histogram has no y-ranging)
NextArtifacts ==
    \/ InferStep \/ RangeXStep
    \/ ShowGraphs \/ StatsStep \/ DistfitStep
    \/ \E i \in 1..MaxProcs : WorkerCheck(i)
    \/ \E i \in 1..MaxProcs : WorkerWrite(i)
    \/ \E i \in 1..MaxProcs : WorkerFinish(i)

SpecArtifacts == InitArtifacts /\ [][NextArtifacts]_vars

\* The controlling process keeps running its terminate loop, and the
\* operating system delivers the SIGTERM of terminate() to a process that
\* still runs.
SpecWorkersFair ==
    /\ SpecWorkers
    /\ WF_vars(TerminateStep)
    /\ \A i \in 1..MaxProcs : WF_vars(WorkerDie(i))

----------------------------------------------------------------------------
(* The saving of the graphs: a run of two groups of MaxPlots bar datasets   *)
(* each, so that individual graphs, group graphs and the global page are    *)
(* all drawn.  The save-as of the datasets comes from their headers, that   *)
(* of the groups from --save-as, that of the global page from               *)
(* --save-all-as; the files either all exist before the run or none does.   *)

SavedPlot(text) ==
    [NewPlot("bar", "", "", "", "", << <<"1", "1">> >>)
        EXCEPT !.save_as = saving_logic(text).save_as,
               !.b_replace = saving_logic(text).b_replace]

SaveNames == {"a", "b", "g", "h", "p"}

InitSave ==
    /\ \E first \in [1..MaxPlots -> {"a", "!a"}], second \in [1..MaxPlots -> {"b", "!b"}] :
          plots = [i \in 1..(2 * MaxPlots) |->
                     SavedPlot(IF i <= MaxPlots THEN first[i] ELSE second[i - MaxPlots])]
    /\ graphs = <<[i \in 1..MaxPlots |-> i], [i \in 1..MaxPlots |-> MaxPlots + i]>>
    /\ \E all \in {None, "p", "!p"}, g \in {None, "g", "!g"}, h \in {None, "h", "!h"},
          n \in BOOLEAN :
          opts = [NoOpts EXCEPT !.save_as = saving_logic(all).save_as,
                                !.b_replace = saving_logic(all).b_replace,
                                !.groups = <<saving_logic(g), saving_logic(h)>>,
                                !.save_no_file = n]
    /\ disk \in {{}, {Path(name, "") : name \in SaveNames}}
    /\ drawn = <<>>
    /\ cur = 1
    /\ pc = "parsed"
    /\ bars = NoBars
    /\ buckets_xy = <<>>
    /\ samples = <<>>
    /\ files = <<>>
    /\ current_plot = "bar"
    /\ warned = <<>>
    /\ stat = NoStat
    /\ procs = <<>>

NextSave == InferStep \/ RangeXStep \/ RangeYStep \/ ShowGraphs

SpecSave == InitSave /\ [][NextSave]_vars

----------------------------------------------------------------------------
(* The mean and the quartiles stat_plot computes from raw samples, lines    *)
(* 1095 and 1336, as functions of the samples.  A quartile is held as a     *)
(* whole number of eighths, the mean as the pair <<numerator, denominator>>.*)

\* line 1095: stats.fmean(plot["x"])
Fmean(x) == <<SumN(x), 2 * Len(x)>>

\* (mutant of QuantilesInclusive) stats.quantiles(x, n = 4) with the default
\* method, "exclusive", as on line 1313
QuantilesExclusive(x) ==
    LET data == PySortedValues(x)
        ld == Len(data)
        m == ld + 1
        j0(i) == (i * m) \div 4
        j(i) == IF j0(i) < 1 THEN 1 ELSE IF j0(i) > ld - 1 THEN ld - 1 ELSE j0(i)
        delta(i) == i * m - j(i) * 4
    IN [i \in 1..3 |-> data[j(i)].n * (4 - delta(i)) + data[j(i) + 1].n * delta(i)]

\* line 1336: stats.quantiles(plot["x"], n = 4, method = "inclusive") of two
\* samples or more
QuantilesInclusive(x) ==
    LET data == PySortedValues(x)
        m == Len(data) - 1
        j(i) == (i * m) \div 4
        delta(i) == (i * m) % 4
    IN [i \in 1..3 |->
          data[j(i) + 1].n * (4 - delta(i))
          + (IF delta(i) = 0 THEN 0 ELSE data[j(i) + 2].n * delta(i))]

\* lines 1095-1096 and 1336: fewer than two samples raise StatisticsError
RawQuartiles ==
    /\ pc = "raw_samples"
    /\ IF Len(samples) < 2
       THEN pc' = "crashed" /\ stat' = stat
       ELSE /\ pc' = "quartiled"
            /\ stat' = [at |-> "quartiled", avg |-> Fmean(samples),
                        quartiles |-> QuantilesInclusive(samples)]
    /\ UNCHANGED <<plots, cur, bars, buckets_xy, samples, parse_vars, proc_vars, file_vars>>

RawValues == {Num(2), Num(4), Num(6)}

InitQuartiles ==
    /\ samples \in SeqsUpTo(RawValues, MaxRawSamples) \ {<<>>}
    /\ pc = "raw_samples"
    /\ plots = <<>>
    /\ cur = 1
    /\ bars = NoBars
    /\ buckets_xy = <<>>
    /\ files = <<>>
    /\ graphs = <<>>
    /\ current_plot = ""
    /\ warned = <<>>
    /\ stat = NoStat
    /\ opts = NoOpts
    /\ procs = <<>>
    /\ disk = {}
    /\ drawn = <<>>

NextQuartiles == RawQuartiles

SpecQuartiles == InitQuartiles /\ [][NextQuartiles]_vars

----------------------------------------------------------------------------
(* Properties of prepare_data (specification Spec).                         *)

\* dataset i has left the x-ranging, resp. the whole loop body, of prepare_data
XRanged(i) == pc \in {"prepared", "plotted"} \/ i < cur \/ (i = cur /\ pc = "xranged")
PlotPrepared(i) == pc \in {"prepared", "plotted"} \/ i < cur

\* the x and the y a data row stands for, once the axes are typed
XValue(p, row) ==
    IF p.graph_type = "timeseries" THEN Strptime(row[1])
    ELSE IF p.is_categorical_in_x THEN Str(row[1]) ELSE ToFloat(row[1])
YValue(p, row) == IF p.is_categorical_in_y THEN Str(row[2]) ELSE ToFloat(row[2])
HeaderBound(p, text) == IF p.graph_type = "timeseries" THEN Strptime(text) ELSE ToFloat(text)
Occurrences(s, v) == Cardinality({j \in 1..Len(s) : s[j] = v})

NumericXKinds == {"histogram", "bar", "line", "scatter", "stem", "buckets"}

\* C1: after prepare_data the x-sequence of every dataset with a Numeric x-axis
\* is sorted ascending and every element lies within the min-x and max-x
\* supplied in the header.
C1_SortedWithinBounds ==
    \A i \in 1..Len(plots) :
        LET p == plots[i]
        IN PlotPrepared(i) /\ p.graph_type \in NumericXKinds /\ ~ p.is_categorical_in_x
           => /\ \A j \in 1..(Len(p.x) - 1) : p.x[j].n <= p.x[j + 1].n
              /\ \A j \in 1..Len(p.x) :
                    /\ FloatOk(p.header.min_x) => ToFloat(p.header.min_x).n <= p.x[j].n
                    /\ FloatOk(p.header.max_x) => p.x[j].n <= ToFloat(p.header.max_x).n

\* C2: once x-ranging (and later y-ranging) has processed a non-histogram
\* dataset, x and y have the same length and position j of y is the y of the
\* input row whose x is at position j of x, or the gap that blanked it.
C2_PairingPreserved ==
    \A i \in 1..Len(plots) :
        LET p == plots[i]
            rows == p.all_data
        IN XRanged(i) /\ p.graph_type # "histogram"
           => /\ Len(p.x) = Len(p.y)
              /\ \E f \in [1..Len(p.x) -> 1..Len(rows)] :
                    /\ \A j, k \in 1..Len(p.x) : j # k => f[j] # f[k]
                    /\ \A j \in 1..Len(p.x) :
                          /\ p.x[j] = XValue(p, rows[f[j]])
                          /\ p.y[j] \in {YValue(p, rows[f[j]]), NaN}

\* a dataset of two rows given in descending x order, both kept and sorted,
\* one of the two y blanked
C2_Witness ==
    /\ pc = "prepared"
    /\ LET p == plots[1]
       IN /\ p.graph_type = "bar" /\ ~ p.is_categorical_in_x /\ ~ p.is_categorical_in_y
          /\ Len(p.all_data) = 2 /\ Len(p.x) = 2
          /\ ToFloat(p.all_data[1][1]).n > ToFloat(p.all_data[2][1]).n
          /\ p.y[1] = NaN /\ p.y[2] # NaN

\* C3: with a Numeric or Timestamp x-axis and min-x and max-x both supplied,
\* every input row with min-x <= x <= max-x is retained by the x-ranging.
C3_InRangeRowsRetained ==
    \A i \in 1..Len(plots) :
        LET p == plots[i]
            rows == p.all_data
        IN /\ XRanged(i)
           /\ p.graph_type = "timeseries" \/ ~ p.is_categorical_in_x
           /\ p.header.min_x # "" /\ p.header.max_x # ""
           => \A r \in 1..Len(rows) :
                 LET v == XValue(p, rows[r])
                 IN /\ HeaderBound(p, p.header.min_x).n <= v.n
                    /\ v.n <= HeaderBound(p, p.header.max_x).n
                    => Occurrences(p.x, v)
                         = Cardinality({q \in 1..Len(rows) : XValue(p, rows[q]) = v})

\* C4: with a Numeric y-axis and a min-y and/or max-y supplied (zero included),
\* y-ranging leaves at position j the gap sentinel if and only if the y at that
\* position is below min-y or above max-y, and the value itself otherwise; no
\* position is removed.
C4_BlankedIffOutside ==
    [][pc = "xranged" /\ pc' # "crashed"
       => LET p == plots[cur]
              q == plots'[cur]
              outside(v) ==
                  \/ FloatOk(p.header.min_y) /\ v.n < ToFloat(p.header.min_y).n
                  \/ FloatOk(p.header.max_y) /\ v.n > ToFloat(p.header.max_y).n
          IN ~ p.is_categorical_in_y /\ (p.header.min_y # "" \/ p.header.max_y # "")
             => /\ Len(q.y) = Len(p.y)
                /\ \A j \in 1..Len(p.y) :
                      q.y[j] = IF outside(p.y[j]) THEN NaN ELSE p.y[j]]_vars

\* C5: on every axis type inference runs on, the axis is Categorical if and
\* only if some row's field fails float(); a Numeric axis holds the parsed
\* number of every row, a Categorical axis the raw text of every row.
AxisInferred(values, is_categorical, rows, field) ==
    /\ is_categorical <=> \E r \in 1..Len(rows) : ~ FloatOk(rows[r][field])
    /\ Len(values) = Len(rows)
    /\ \A r \in 1..Len(rows) :
          values[r] = IF is_categorical THEN Str(rows[r][field]) ELSE ToFloat(rows[r][field])
C5_TypeInference ==
    pc = "typed"
    => LET p == plots[cur]
       IN /\ p.graph_type \notin {"timeseries", "pie"}
             => AxisInferred(p.x, p.is_categorical_in_x, p.all_data, 1)
          /\ p.graph_type # "histogram"
             => AxisInferred(p.y, p.is_categorical_in_y, p.all_data, 2)

\* an x axis made Categorical by one row although another row parses, next to
\* a Numeric y axis
C5_Witness ==
    /\ pc = "typed"
    /\ LET p == plots[cur]
       IN /\ p.graph_type = "bar"
          /\ p.is_categorical_in_x /\ ~ p.is_categorical_in_y
          /\ \E r \in 1..Len(p.all_data) : FloatOk(p.all_data[r][1])

\* C6: x-ranging leaves a Categorical x-sequence exactly as read from the file,
\* whatever min-x and max-x are: same elements, same order, nothing removed
\* (and as many y as rows).
C6_CategoricalXUntouched ==
    \A i \in 1..Len(plots) :
        LET p == plots[i]
            rows == p.all_data
        IN XRanged(i) /\ p.is_categorical_in_x
           => /\ p.x = [r \in 1..Len(rows) |-> Str(rows[r][1])]
              /\ p.graph_type # "histogram" => Len(p.y) = Len(rows)

----------------------------------------------------------------------------
(* Properties of do_plot_group_bars (specification SpecBars).               *)

\* the y of the first row of dataset p with key dom[i], or p's gap sentinel
GapOf(p) == IF p.is_categorical_in_y THEN Str("") ELSE NaN
ExpectedY(p, dom) ==
    [i \in 1..Len(dom) |->
        IF \E j \in 1..Len(p.x) : p.x[j] = dom[i]
        THEN p.y[CHOOSE j \in 1..Len(p.x) :
                    p.x[j] = dom[i] /\ \A k \in 1..(j - 1) : p.x[k] # dom[i]]
        ELSE GapOf(p)]

\* the group holds Categorical-in-x datasets only (two or more)
AllCategoricalX == \A k \in 1..Len(plots) : plots[k].is_categorical_in_x

\* C7 (as stated): in a group of two or more Categorical-in-x datasets every
\* dataset gets a y-sequence as long as the shared domain, holding at position
\* i the dataset's y for key domain[i] when it has the key, and the gap
\* sentinel exactly when it lacks it.
C7_AlignedToDomain ==
    pc = "plotted" /\ AllCategoricalX
    => \A k \in 1..Len(plots) :
          LET p == plots[k]
              dom == bars.merged_x
              y_data == bars.calls[k].y_data
          IN p.is_categorical_in_x
             => /\ Len(y_data) = Len(dom)
                /\ y_data = ExpectedY(p, dom)
                /\ \A i \in 1..Len(dom) :
                      y_data[i] = GapOf(p) <=> ~ Contains(p.x, dom[i])

\* the first Categorical-in-x dataset, in group order, with Categorical y whose
\* aligned sequence holds an empty text (0 when there is none)
HasEmptyText(p, dom) ==
    p.is_categorical_in_x /\ p.is_categorical_in_y /\ Contains(ExpectedY(p, dom), Str(""))
FirstWithEmptyText(dom) ==
    IF \E k \in 1..Len(plots) : HasEmptyText(plots[k], dom)
    THEN CHOOSE k \in 1..Len(plots) :
            HasEmptyText(plots[k], dom) /\ \A m \in 1..(k - 1) : ~ HasEmptyText(plots[m], dom)
    ELSE 0
\* s with its first empty text moved to position 1
FirstEmptyToFront(s) ==
    LET pos == CHOOSE i \in 1..Len(s) : s[i] = Str("") /\ \A j \in 1..(i - 1) : s[j] # Str("")
    IN [i \in 1..Len(s) |-> IF i = 1 THEN Str("") ELSE IF i <= pos THEN s[i - 1] ELSE s[i]]

\* C7 (amended): in a group of two or more Categorical-in-x datasets every
\* dataset gets a y-sequence as long as the shared domain, holding at position
\* i the y of the dataset's first row with key domain[i] when it has the key
\* and the gap sentinel when it lacks it; except that in the first dataset with
\* Categorical y whose sequence holds an empty text, the first empty text is
\* moved to the front.
C7_AlignedUpToGapMove ==
    pc = "plotted" /\ AllCategoricalX
    => \A k \in 1..Len(plots) :
          LET p == plots[k]
              dom == bars.merged_x
              y_data == bars.calls[k].y_data
          IN p.is_categorical_in_x
             => /\ Len(y_data) = Len(dom)
                /\ y_data = IF k = FirstWithEmptyText(dom)
                            THEN FirstEmptyToFront(ExpectedY(p, dom))
                            ELSE ExpectedY(p, dom)

\* two datasets with Categorical x and y and no empty y, each lacking a key of
\* the other: the first has its gap moved to the front, the second has its gap
\* at the position of the key it lacks
C7_Witness ==
    /\ pc = "plotted"
    /\ Len(plots) = 2
    /\ \A k \in 1..2 :
          /\ plots[k].is_categorical_in_x /\ plots[k].is_categorical_in_y
          /\ ~ Contains(plots[k].y, Str(""))
          /\ Contains(bars.calls[k].y_data, Str(""))
    /\ bars.calls[1].y_data # ExpectedY(plots[1], bars.merged_x)
    /\ bars.calls[2].y_data = ExpectedY(plots[2], bars.merged_x)

\* C8: the shared domain is the duplicate-free union of the x keys of the
\* group's Categorical-in-x datasets, in ascending lexicographic order.
C8_SharedDomain ==
    pc = "plotted"
    => LET dom == bars.merged_x
       IN /\ {dom[i] : i \in 1..Len(dom)}
               = UNION {{plots[k].x[j] : j \in 1..Len(plots[k].x)} :
                           k \in {m \in 1..Len(plots) : plots[m].is_categorical_in_x}}
          /\ \A i \in 1..(Len(dom) - 1) : StrRank(dom[i].s) < StrRank(dom[i + 1].s)

\* two Categorical-in-x datasets sharing a key, the keys first appearing in
\* descending order
C8_Witness ==
    /\ pc = "plotted"
    /\ plots[1].is_categorical_in_x /\ plots[2].is_categorical_in_x
    /\ plots[1].x[1] = Str("b")
    /\ Contains(plots[2].x, Str("b")) /\ Contains(plots[2].x, Str("a"))
    /\ Len(bars.merged_x) >= 2

\* the y values of the pairs whose x is v, in the order of the pairs
YsAt(xs, ys, v) ==
    LET at == SelectSeq([j \in 1..Len(xs) |-> <<xs[j], ys[j]>>], LAMBDA q : q[1] = v)
    IN [j \in 1..Len(at) |-> at[j][2]]
SortedKind(p) ==
    p.graph_type # "histogram" /\ (p.graph_type = "timeseries" \/ ~ p.is_categorical_in_x)

\* C25: the sort that precedes the bound scan is stable: the rows kept by the
\* x-ranging that have the same x come out in the order the file gave them,
\* each with its own y.
C25_SortIsStable ==
    pc = "xranged" /\ SortedKind(plots[cur])
    => LET p == plots[cur]
           rows2 == TwoFieldRows(p)
           in_x == [j \in 1..Len(rows2) |-> XValue(p, rows2[j])]
           in_y == [j \in 1..Len(rows2) |-> YValue(p, rows2[j])]
       IN /\ Len(p.y) = Len(p.x)
          /\ \A j \in 1..Len(p.x) : YsAt(p.x, p.y, p.x[j]) = YsAt(in_x, in_y, p.x[j])

\* two rows with the same x, the one with the greater y first in the file, are
\* both kept
C25_Witness ==
    /\ pc = "xranged" /\ SortedKind(plots[cur])
    /\ plots[cur].all_data = <<<<"1", "1">>, <<"1", "-1">>>>
    /\ plots[cur].x = <<Num(2), Num(2)>>
    /\ plots[cur].y = <<Num(2), Num(-2)>>

\* the indices 0..n-1 of a domain of n keys
Indices(dom) == [i \in 1..Len(dom) |-> Num(2 * (i - 1))]

\* C29: in a group of two or more datasets, whatever the order of the
\* Categorical-in-x and Numeric-in-x datasets, do_plot_individual_bar gets for
\* every Categorical-in-x dataset the indices 0..n-1 of the shared domain as
\* x positions and a y-sequence of length n.
C29_PositionsOfSharedDomain ==
    pc = "plotted"
    => \A k \in 1..Len(plots) :
          plots[k].is_categorical_in_x
          => /\ bars.calls[k].x_data = Indices(bars.merged_x)
             /\ Len(bars.calls[k].y_data) = Len(bars.merged_x)

----------------------------------------------------------------------------
(* Properties of original_X (specification SpecExpand).                     *)

\* the copies a frequency stands for: its whole part, none when below 1
Copies(f) == IF f.n > 0 THEN f.n \div 2 ELSE 0
RECURSIVE CopiesUpTo(_)
CopiesUpTo(k) == IF k = 0 THEN 0 ELSE CopiesUpTo(k - 1) + Copies(buckets_xy[k][2])
ExpectedSamples ==
    [j \in 1..CopiesUpTo(Len(buckets_xy)) |->
        buckets_xy[CHOOSE k \in 1..Len(buckets_xy) :
                      CopiesUpTo(k - 1) < j /\ j <= CopiesUpTo(k)][1]]
HasNaNFrequency == \E i \in 1..Len(buckets_xy) : buckets_xy[i][2].t = "nan"
WholeFrequencies ==
    \A i \in 1..Len(buckets_xy) :
        buckets_xy[i][2].t = "num" /\ buckets_xy[i][2].n >= 0 /\ buckets_xy[i][2].n % 2 = 0

\* C9 (as stated): for every sequence of (value, frequency) pairs original_X
\* returns, in pair order, each value repeated frequency times, and the length
\* of the result is the sum of the frequencies.
C9_RepeatedFrequencyTimes ==
    pc # "stats"
    => /\ pc = "expanded"
       /\ samples = ExpectedSamples
       /\ 2 * Len(samples) = SumCounts(buckets_xy)

\* C9 (amended): for every non-empty sequence of pairs original_X raises an
\* error when a frequency is nan, and otherwise returns, in pair order, each
\* value repeated int(frequency) times (the frequency truncated toward zero,
\* no copy when that is zero or negative); the length of the result is the sum
\* of the frequencies when all of them are non-negative whole numbers.
C9_RepeatedTruncatedTimes ==
    pc # "stats"
    => /\ pc = "crashed" <=> HasNaNFrequency
       /\ pc = "expanded"
          => /\ samples = ExpectedSamples
             /\ WholeFrequencies => 2 * Len(samples) = SumCounts(buckets_xy)

\* a fractional frequency truncated and a negative one giving no copy
C9_Witness ==
    /\ pc = "expanded"
    /\ Len(buckets_xy) = 2
    /\ buckets_xy[1][2] = Num(3) /\ buckets_xy[2][2] = Num(-2)
    /\ Len(samples) = 1

\* the (value, run length) pairs of a flat sequence: re-aggregation
RECURSIVE RunLengths(_)
RunLengths(s) ==
    IF s = <<>> THEN <<>>
    ELSE LET r == RunLengths(Tail(s))
         IN IF r # <<>> /\ r[1][1] = s[1]
            THEN <<<<s[1], Num(r[1][2].n + 2)>>>> \o Tail(r)
            ELSE <<<<s[1], Num(2)>>>> \o r

\* C10 (as stated): counting the run lengths of what original_X returns gives
\* back the original (value, frequency) pairs.
C10_RoundTrip == pc = "expanded" => RunLengths(samples) = buckets_xy

\* C10 (amended): counting the run lengths of what original_X returns gives
\* back the original pairs when every frequency is a positive whole number and
\* no two adjacent pairs have the same value.
C10_RoundTripOfAggregates ==
    /\ pc = "expanded"
    /\ WholeFrequencies
    /\ \A i \in 1..Len(buckets_xy) : buckets_xy[i][2].n > 0
    /\ \A i \in 1..(Len(buckets_xy) - 1) : buckets_xy[i][1] # buckets_xy[i + 1][1]
    => RunLengths(samples) = buckets_xy

\* two pairs of different values with frequencies 1 and 2, expanded
C10_Witness ==
    /\ pc = "expanded"
    /\ Len(buckets_xy) = 2
    /\ buckets_xy[1][1] # buckets_xy[2][1]
    /\ buckets_xy[1][2] = Num(2) /\ buckets_xy[2][2] = Num(4)
    /\ Len(samples) = 3

\* the pairs as stat_plot holds them, plot["x"] and plot["y"] (line 1098)
BucketsOfPairs ==
    [kind |-> "buckets",
     x |-> [i \in 1..Len(buckets_xy) |-> buckets_xy[i][1]],
     y |-> [i \in 1..Len(buckets_xy) |-> buckets_xy[i][2]]]

\* sum(y * x) / sum(y) of line 1099 and the mean of the expanded samples are
\* the same number: WeightA / (2 * WeightS) = SumN(samples) / (2 * Len(samples))
MeansAgree ==
    /\ Len(samples) > 0
    /\ WeightS(BucketsOfPairs) # 0
    /\ WeightA(BucketsOfPairs) * Len(samples) = SumN(samples) * WeightS(BucketsOfPairs)

\* C30 (as stated): for every sequence of pairs original_X expands, the
\* frequency-weighted mean of the pairs equals the plain mean of the expansion.
C30_WeightedMeanIsPlainMean == pc = "expanded" => MeansAgree

\* C30 (amended): the frequency-weighted mean of the pairs equals the plain
\* mean of the expansion when every frequency is a non-negative whole number
\* (and their sum is not zero, which the weighted mean needs to exist).
C30_WeightedMeanOfWholeFrequencies ==
    pc = "expanded" /\ WholeFrequencies => MeansAgree

\* two pairs of different values with frequencies 1 and 2, expanded to three
\* samples
C30_Witness ==
    /\ pc = "expanded"
    /\ buckets_xy = <<<<Num(2), Num(2)>>, <<Num(4), Num(4)>>>>
    /\ samples = <<Num(2), Num(4), Num(4)>>
    /\ WeightA(BucketsOfPairs) = 20

----------------------------------------------------------------------------
(* Properties of stat_plot (specification SpecStat).                        *)

\* a / tot <= b / tot for two entries <<a, tot>>, <<b, tot>> of y_values
RatLe(p, q) == IF p[2] > 0 THEN p[1] <= q[1] ELSE p[1] >= q[1]

\* C11: whenever stat_plot has computed the empirical CDF, the sequence is
\* non-decreasing from one entry to the next and its last entry equals 1.0.
C11_CdfMonotone ==
    stat.at \in {"cdf", "saved"}
    => LET y_values == stat.y_values
       IN /\ y_values # <<>>
          /\ \A i \in 1..(Len(y_values) - 1) : RatLe(y_values[i], y_values[i + 1])
          /\ y_values[Len(y_values)][1] = y_values[Len(y_values)][2]

\* C12: a domain error raised while computing one theoretical curve (normal,
\* Poisson, exponential) never ends the worker: no worker dies in one of
\* these stages, so that the later stages and the save step still run.
C12_CurveErrorSkipsCurve ==
    ~ (stat.at = "crashed" /\ stat.failed_at \in {"normal", "poisson", "exponential"})

----------------------------------------------------------------------------
(* Properties of the parse loop (specification SpecParse).                  *)

\* the file the parse loop is about to read and the input left after it
NextFile == files[1][1]
InputAfterNextFile ==
    IF Len(files[1]) = 1 THEN Tail(files) ELSE <<Tail(files[1])>> \o Tail(files)

\* C13: whatever its position in its group, a file whose header declares a
\* graph kind outside the supported enumeration aborts the run.
C13_UnsupportedKindAborts ==
    [][pc = "parsing" /\ NextFile.kind \notin GRAPH_TYPES => pc' = "aborted"]_vars

\* C14: a file, not the first of its group, that declares a supported graph
\* kind other than its group's is not added to the group, the run does not
\* abort, and the files after it, of this group and of the later ones, are
\* all still to be parsed.
C14_MismatchSkipped ==
    [][(/\ pc = "parsing"
        /\ current_plot # "" /\ NextFile.kind \in GRAPH_TYPES
        /\ NextFile.kind # current_plot)
       => /\ plots' = plots /\ graphs' = graphs
          /\ pc' # "aborted"
          /\ files' = InputAfterNextFile]_vars

\* a group of three files whose second was skipped and whose third was added,
\* followed by a second group
C14_Witness ==
    /\ pc = "parsed"
    /\ warned = << <<1, 2>> >>
    /\ Len(graphs) = 2 /\ Len(graphs[1]) = 2 /\ Len(graphs[2]) = 1

\* C15: during parsing and every later stage all datasets of one group have
\* the graph kind of the group's first file, and the graph kind of a dataset
\* never changes once set.
SameKindInGroups ==
    \A g \in 1..Len(graphs) : \A k \in 1..Len(graphs[g]) :
        plots[graphs[g][k]].graph_type = plots[graphs[g][1]].graph_type
FirstFileSetsKind ==
    pc = "parsing" /\ current_plot = "" /\ pc' # "aborted"
    => plots'[graphs'[Len(graphs')][1]].graph_type = NextFile.kind
KindNeverChanges ==
    \A i \in 1..Len(plots) : plots'[i].graph_type = plots[i].graph_type
C15_GroupKindInvariant ==
    [](SameKindInGroups) /\ [][FirstFileSetsKind /\ KindNeverChanges]_vars

\* a prepared group of two datasets, a file of another kind having been
\* offered to it
C15_Witness ==
    /\ pc = "prepared"
    /\ Len(graphs) = 1 /\ Len(graphs[1]) = 2
    /\ warned # <<>>

----------------------------------------------------------------------------
(* Properties of the range bounds of prepare_data (specification Spec).     *)

\* a header bound that is supplied and is not a number
TextBound(text) == text # "" /\ ~ FloatOk(text)

\* C16: for a dataset with a Numeric x-axis, at least one x, and a supplied
\* min-x or max-x that is not a number, the x-ranging ends without error, and
\* when the other bound is empty or not a number either it keeps every x the
\* dataset has.
C16_TextBoundIgnored ==
    [][LET p == plots[cur]
       IN (/\ pc = "typed"
           /\ p.graph_type # "timeseries" /\ ~ p.is_categorical_in_x
           /\ p.x # <<>>
           /\ TextBound(p.header.min_x) \/ TextBound(p.header.max_x))
          => /\ pc' # "crashed"
             /\ (~ FloatOk(p.header.min_x) /\ ~ FloatOk(p.header.max_x))
                => Len(plots'[cur].x) = Len(p.x)]_vars

\* the x values of the data rows of a dataset
DataX(p) ==
    LET rows == IF p.graph_type = "histogram" THEN p.all_data ELSE TwoFieldRows(p)
    IN {XValue(p, rows[r]) : r \in 1..Len(rows)}
\* the value a supplied header bound stands for
SuppliedBound(p, text) ==
    IF p.graph_type = "timeseries" THEN Strptime(text) ELSE CheckLimit(Str(text))
Smallest(S) == CHOOSE v \in S : \A w \in S : v.n <= w.n
Largest(S) == CHOOSE v \in S : \A w \in S : v.n >= w.n

\* C17: after prepare_data, for every dataset with a Numeric or Timestamp
\* x-axis, min-x is the header's value when the header supplies one (zero
\* included) and the smallest x of the data otherwise; likewise max-x with
\* the largest x.
C17_BoundsWrittenBack ==
    \A i \in 1..Len(plots) :
        LET p == plots[i]
        IN PlotPrepared(i) /\ (p.graph_type = "timeseries" \/ ~ p.is_categorical_in_x)
           => /\ p.min_x = IF p.header.min_x # ""
                           THEN SuppliedBound(p, p.header.min_x)
                           ELSE Smallest(DataX(p))
              /\ p.max_x = IF p.header.max_x # ""
                           THEN SuppliedBound(p, p.header.max_x)
                           ELSE Largest(DataX(p))

----------------------------------------------------------------------------
(* Properties of the worker processes (specifications SpecWorkers and       *)
(* SpecWorkersFair).                                                        *)

Running(i) == procs[i].state = "running"

\* C18: in batch mode there is no state in which the controlling process has
\* reached its end while a process it started, for stat_plot or for
\* distfit_plot, still runs.
C18_BatchWaitsForWorkers ==
    ~ opts.is_interactive /\ pc = "closed" => \A i \in 1..Len(procs) : ~ Running(i)

\* a batch run at its end that started a process of each target
C18_Witness ==
    /\ ~ opts.is_interactive /\ pc = "closed"
    /\ \E i, j \in 1..Len(procs) :
          procs[i].target = "stat_plot" /\ procs[j].target = "distfit_plot"
    /\ \A i \in 1..Len(procs) : procs[i].joined

\* C19: in interactive mode, once Enter has been pressed the controlling
\* process starts no process and joins none, sends terminate to the processes
\* in the order it started them, has sent it to all of them when it ends, and
\* eventually every process has been sent terminate and none is running.
EnterPressed == pc = "terminating" \/ (pc = "closed" /\ opts.is_interactive)
AllSignalled == \A i \in 1..Len(procs) : procs[i].terminated
C19_InteractiveTerminatesAll ==
    /\ [][EnterPressed
          => /\ Len(procs') = Len(procs)
             /\ \A i \in 1..Len(procs) :
                   /\ procs'[i].joined = procs[i].joined
                   /\ procs'[i].terminated /\ ~ procs[i].terminated
                      => \A j \in 1..(i - 1) : procs[j].terminated]_vars
    /\ [](pc = "closed" /\ opts.is_interactive
           => AllSignalled /\ \A i \in 1..Len(procs) : ~ procs[i].joined)
    /\ (pc = "terminating"
          ~> (AllSignalled /\ \A i \in 1..Len(procs) : ~ Running(i)))

\* an interactive run at its end: two processes or more, all sent terminate,
\* one of them ended by it, none running any more
C19_Witness ==
    /\ opts.is_interactive /\ pc = "closed"
    /\ Len(procs) >= 2
    /\ AllSignalled
    /\ \E i \in 1..Len(procs) : procs[i].state = "killed"
    /\ \A i \in 1..Len(procs) : ~ Running(i)

\* C20: with statistics enabled no dataset ever has two stat_plot processes,
\* none is ever started for a dataset whose graph type is not timeseries,
\* histogram or buckets or whose y-axis is Categorical, and once the start
\* loop is over every other dataset has exactly one.
StatWorkersOf(d) ==
    Cardinality({i \in 1..Len(procs) : procs[i].target = "stat_plot" /\ procs[i].plot = d})
StatsLoopOver == pc \in {"distfit_loop", "input", "terminating", "joining", "closed"}
WorkerStepOf(i) == procs'[i].state # procs[i].state \/ procs'[i].at # procs[i].at
----------------------------------------------------------------------------
(* Properties of the mean and quartiles of raw samples (specification       *)
(* SpecQuartiles).                                                          *)

\* the raw samples 1, 2, 2, 3, in any order
Samples1223 == PySortedValues(samples) = <<Num(2), Num(4), Num(4), Num(6)>>

\* C22 (as stated): for the raw samples 1, 2, 2, 3 the quartiles computed with
\* the inclusive method are 1.5, 2.0, 2.5 and the mean is 2.0.
C22_QuartilesAsStated ==
    pc = "quartiled" /\ Samples1223
    => stat.quartiles = <<12, 16, 20>> /\ stat.avg[1] = 2 * stat.avg[2]

\* C22 (amended): for the raw samples 1, 2, 2, 3 the quartiles computed with
\* the inclusive method are 1.75, 2.0, 2.25 and the mean is 2.0.
C22_QuartilesOf1223 ==
    pc = "quartiled" /\ Samples1223
    => stat.quartiles = <<14, 16, 18>> /\ stat.avg[1] = 2 * stat.avg[2]

\* the samples were given as 1, 2, 2, 3 and their quartiles are computed
C22_Witness ==
    pc = "quartiled" /\ samples = <<Num(2), Num(4), Num(4), Num(6)>>

----------------------------------------------------------------------------
(* Properties of the saving of the graphs (specification SpecSave).         *)

\* C23: whenever a graph, individual, group or global, is saved under a name
\* whose file already exists, the file is overwritten if and only if that
\* graph's own save-as had the leading exclamation mark, and otherwise the
\* graph goes to the name with the timestamp suffix.
C23_OverwriteIffOwnBang ==
    \A k \in 1..Len(drawn) :
        LET g == drawn[k]
        IN g.to # NoPath /\ g.existed
           => /\ g.to = g.file <=> g.b_replace
              /\ ~ g.b_replace => g.to = [g.file EXCEPT !.stamp = TRUE]

----------------------------------------------------------------------------
(* Properties of the start of the processes (specification SpecStart).      *)

WorkersOf(target, d) ==
    Cardinality({i \in 1..Len(procs) : procs[i].target = target /\ procs[i].plot = d})
StartLoopsOver == pc \in {"input", "joining"}
EligiblePlot(d) ==
    /\ plots[d].graph_type \in {"timeseries", "histogram", "buckets"}
    /\ ~ plots[d].is_categorical_in_y

\* C24: with --stats-only and --no-stats both given, a stat_plot process is
\* started for every eligible dataset; with --distfit-only and --no-distfit
\* both given, a distfit_plot process is; and with --stats-only or
\* --distfit-only no individual, group or global graph is produced.
C24_OnlyOverridesNo ==
    StartLoopsOver
    => /\ opts.stats_only /\ opts.no_stats
          => \A d \in 1..Len(plots) : EligiblePlot(d) => WorkersOf("stat_plot", d) = 1
       /\ opts.distfit_only /\ opts.no_distfit
          => \A d \in 1..Len(plots) : EligiblePlot(d) => WorkersOf("distfit_plot", d) = 1
       /\ opts.stats_only \/ opts.distfit_only => drawn = <<>>

\* C27: no process is ever started for a histogram or buckets dataset whose
\* x-axis is Categorical.
C27_WorkersGetNumericSamples ==
    \A i \in 1..Len(procs) :
        LET p == plots[procs[i].plot]
        IN p.graph_type \in {"histogram", "buckets"} => ~ p.is_categorical_in_x

----------------------------------------------------------------------------
(* Properties of the samples of the workers (specification SpecSamples).    *)

\* C26: no worker of a buckets dataset, stat_plot or distfit_plot, ends on an
\* error of its call of original_X, and a worker past that call holds the
\* expansion of its (value, frequency) pairs.
C26_ExpansionSucceeds ==
    stat.kind = "buckets"
    => LET r == original_X(NoArg, NoArg, Arg(ZippedXY(stat)))
       IN /\ stat.at = "crashed" /\ stat.failed_at = "quartiles" => r.ok
          /\ stat.at = "crashed" => stat.failed_at # "distfit_data"
          /\ stat.at \in {"distfit_data", "distfit_fit"} => stat.np_plot = r.tmp

----------------------------------------------------------------------------
(* Properties of the files of the workers (specification SpecArtifacts).    *)

\* C28: when files are saved, no two processes settle on the same path for
\* their figure, whatever the save-as of their datasets: in particular no two
\* are between os.path.exists and savefig on the same path.
C28_ArtifactPathsDistinct ==
    \A i, j \in 1..Len(procs) :
        /\ i # j
        /\ procs[i].to # NoPath
        /\ procs[j].to # NoPath
        => procs[i].to # procs[j].to

====
